---- MODULE Spec2Model ----
(***************************************************************************)
(* Model of the ingestion side of the Aven support bot:                    *)
(*   - PineconeStorage.upsertRecords / batchUpsertRecords                  *)
(*     (src/src/lib/pinecone/storage.ts)                                   *)
(*   - AvenScraper.scrapeAvenSupport / scrapeWithRetry                     *)
(*     (src/src/lib/exa/client.ts)                                         *)
(* Every await of the code is a step of the model; the external store, the *)
(* content service and the file system answer nondeterministically.        *)
(***************************************************************************)
EXTENDS Integers, Sequences, FiniteSets, TLC

(* ---------------------------- bounds ----------------------------------- *)
MaxRecords == 5
MaxBatchSize == 3
MaxRetries == 3

(* ---------------------------- state ------------------------------------ *)
VARIABLES
  \* batchUpsertRecords run
  records,         \* the input record list (record ids)
  batchSize,       \* the batchSize argument
  pc,              \* position of the run: "loop", "await", "delay", "done"
  i,               \* loop variable of the for loop
  totalProcessed,  \* let totalProcessed
  allErrors,       \* const allErrors
  lastUpsert,      \* the value the last upsertRecords call produced
  batchResult,     \* the BatchResult the run returned
  calls,           \* store side: the batches handed to index.upsertRecords
  outcomes,        \* store side: per call, TRUE accepted / FALSE threw
  inFlight,        \* store side: calls not yet answered
  events,          \* order of the run's calls, answers and delay steps
  caller,          \* who called batchUpsertRecords
  ingestReply,     \* what that caller reported: HTTP response or exit code
  \* scrapeWithRetry run
  maxRetries,      \* the maxRetries argument
  saveRawResult,   \* the saveRawResult argument
  saveProcessedResult, \* the saveProcessedResult argument
  spc,             \* position of the run
  attempt,         \* loop variable of the retry loop
  lastError,       \* let lastError
  fetchCalls,      \* content service side: number of getContents calls
  content,         \* const result: what the current attempt's fetch gave
  attemptLog,      \* per finished scrapeAvenSupport call, how it ended
  waits,           \* the setTimeout delays of the retry loop, in ms
  written,         \* file system side: snapshot files written
  scrapeOutcome,   \* what scrapeWithRetry returned or threw
  files,           \* file system: path -> content of the snapshot files
  clock,           \* the millisecond clock read by new Date()
  entry,           \* who runs the scraper: "api" (direct call) or "route"
  saveToFile,      \* POST /api/scrape body: saveToFile
  filename,        \* POST /api/scrape body: filename
  scrapeReply,     \* the HTTP response of POST /api/scrape
  requests,        \* number of scrape requests started so far
  \* PineconeSearch call, direct or through POST /api/search
  sEntry,          \* who calls the search layer: "api" (direct) or "route"
  sReq,            \* the arguments of the call / the parsed request body
  indexDocs,       \* store side: the documents of the index
  sPc,             \* position of the call
  sPhase,          \* "first" search of the handler or its "rerank" search
  sCall,           \* the PineconeSearch method running, with its arguments
  storeOps,        \* store side: the operations the index was asked for
  storeAnswers,    \* store side: how each operation was answered
  searchReply,     \* what the caller got: result, thrown error, response
  \* POST /api/chat request
  cReq,            \* the parsed body: message, conversation, includeContext
  cIndex,          \* store side: the documents of the index
  cPc,             \* position of the handler
  cStoreOps,       \* store side: the operations the index was asked for
  cSearch,         \* how the context search settled
  context,         \* let context
  searchResults,   \* let searchResults
  llmCalls,        \* LLM side: the message lists sent for completion
  llmAnswers,      \* LLM side: how each completion call was answered
  chatReply,       \* the HTTP response
  \* validateAndCleanFAQs call
  faqs,            \* the argument: the candidate list
  vPc,             \* position of the call
  cleaned,         \* what the call returned or threw
  \* processRawTextContent call
  rawText,         \* the argument: the page text
  xPc,             \* position of the call
  extractedFaqs,   \* what the call returned
  \* convertFaqsToUpsertRecords call
  cvFaqs,          \* the argument: the FAQ list
  cvNow,           \* what new Date().toISOString() gives during the call
  cvPc,            \* position of the call
  cvRecords,       \* what the call returned
  \* countByCategory call
  kIndex,          \* store side: the documents of the index
  kPc,             \* position of the call
  kCategories,     \* const categories: what getCategories returned
  kNext,           \* position of the for-of loop in categories
  kCounts,         \* const counts
  kStoreOps,       \* store side: the operations the index was asked for
  kStoreAnswers,   \* store side: how each operation was answered
  kReply,          \* what countByCategory returned
  \* retryWithBackoff call
  rbOptions,       \* the options argument: maxRetries, baseDelay
  rbPc,            \* position of the call
  rbAttempt,       \* loop variable attempt
  rbLastError,     \* let lastError
  rbLog,           \* per call of fn, how it settled
  rbDelays,        \* the setTimeout delays, in ms
  rbOutcome,       \* what retryWithBackoff returned or threw
  \* POST /api/embeddings request, up to the upload
  eReq,            \* the request body: forceRecreate, dataFile, batchSize
  eFile,           \* file system: what is at the data file's path
  eIndex0,         \* store side: the index before the request
  eIndex,          \* store side: the index now
  ePc,             \* position of the handler
  eOps             \* store side: the index operations asked for

storageVars == <<records, batchSize, pc, i, totalProcessed, allErrors,
                 lastUpsert, batchResult, calls, outcomes, inFlight, events,
                 caller, ingestReply>>

scraperVars == <<maxRetries, saveRawResult, saveProcessedResult, spc, attempt,
                 lastError, fetchCalls, content, attemptLog, waits, written,
                 scrapeOutcome, files, clock, entry, saveToFile, filename,
                 scrapeReply, requests>>

searchVars == <<sEntry, sReq, indexDocs, sPc, sPhase, sCall, storeOps,
                storeAnswers, searchReply>>

chatVars == <<cReq, cIndex, cPc, cStoreOps, cSearch, context, searchResults,
              llmCalls, llmAnswers, chatReply>>

validatorVars == <<faqs, vPc, cleaned>>

extractorVars == <<rawText, xPc, extractedFaqs>>

converterVars == <<cvFaqs, cvNow, cvPc, cvRecords>>

countVars == <<kIndex, kPc, kCategories, kNext, kCounts, kStoreOps,
               kStoreAnswers, kReply>>

retryVars == <<rbOptions, rbPc, rbAttempt, rbLastError, rbLog, rbDelays,
               rbOutcome>>

embeddingsVars == <<eReq, eFile, eIndex0, eIndex, ePc, eOps>>

\* the functions and handlers that are modelled one call at a time
toolVars == <<extractorVars, converterVars, countVars, retryVars,
              embeddingsVars>>

\* what the ingestion components leave alone
outsideIngest == <<searchVars, chatVars, validatorVars, toolVars>>

\* what the search layer leaves alone
outsideSearch == <<storageVars, scraperVars, chatVars, validatorVars,
                   toolVars>>

\* what the chat handler leaves alone
outsideChat == <<storageVars, scraperVars, searchVars, validatorVars,
                 toolVars>>

\* what the validator leaves alone
outsideValidator == <<storageVars, scraperVars, searchVars, chatVars,
                      toolVars>>

\* what the text extractor leaves alone
outsideExtractor == <<storageVars, scraperVars, searchVars, chatVars,
                      validatorVars, converterVars, countVars, retryVars,
                      embeddingsVars>>

\* what the record converter leaves alone
outsideConverter == <<storageVars, scraperVars, searchVars, chatVars,
                      validatorVars, extractorVars, countVars, retryVars,
                      embeddingsVars>>

\* what countByCategory leaves alone
outsideCount == <<storageVars, scraperVars, searchVars, chatVars,
                  validatorVars, extractorVars, converterVars, retryVars,
                  embeddingsVars>>

\* what retryWithBackoff leaves alone
outsideRetry == <<storageVars, scraperVars, searchVars, chatVars,
                  validatorVars, extractorVars, converterVars, countVars,
                  embeddingsVars>>

\* what the embeddings handler leaves alone before the upload
outsideEmbeddings == <<scraperVars, searchVars, chatVars, validatorVars,
                       extractorVars, converterVars, countVars, retryVars>>

vars == <<storageVars, scraperVars, searchVars, chatVars, validatorVars,
          toolVars>>

None == [kind |-> "none"]

\* the request body has no filename
NoName == [kind |-> "undefined"]

\* no search call is running
SearchIdle ==
  /\ sEntry = "none"
  /\ sReq = None
  /\ indexDocs = {}
  /\ sPc = "idle"
  /\ sPhase = "first"
  /\ sCall = None
  /\ storeOps = <<>>
  /\ storeAnswers = <<>>
  /\ searchReply = None

\* let context = ''
EmptyContext == [parts |-> <<>>, length |-> 0]

\* no chat request is being handled
ChatIdle ==
  /\ cReq = None
  /\ cIndex = {}
  /\ cPc = "idle"
  /\ cStoreOps = <<>>
  /\ cSearch = None
  /\ context = EmptyContext
  /\ searchResults = None
  /\ llmCalls = <<>>
  /\ llmAnswers = <<>>
  /\ chatReply = None

\* the validator is not running
ValidatorIdle ==
  /\ faqs = <<>>
  /\ vPc = "idle"
  /\ cleaned = None

\* the text extractor is not running
ExtractorIdle ==
  /\ rawText = <<>>
  /\ xPc = "idle"
  /\ extractedFaqs = None

\* the record converter is not running
ConverterIdle ==
  /\ cvFaqs = <<>>
  /\ cvNow = None
  /\ cvPc = "idle"
  /\ cvRecords = None

\* no category count is running
CountIdle ==
  /\ kIndex = {}
  /\ kPc = "idle"
  /\ kCategories = None
  /\ kNext = 0
  /\ kCounts = <<>>
  /\ kStoreOps = <<>>
  /\ kStoreAnswers = <<>>
  /\ kReply = None

\* no retryWithBackoff call is running
RetryIdle ==
  /\ rbOptions = None
  /\ rbPc = "idle"
  /\ rbAttempt = 0
  /\ rbLastError = None
  /\ rbLog = <<>>
  /\ rbDelays = <<>>
  /\ rbOutcome = None

\* no embeddings request is being handled
EmbeddingsIdle ==
  /\ eReq = None
  /\ eFile = None
  /\ eIndex0 = None
  /\ eIndex = None
  /\ ePc = "idle"
  /\ eOps = <<>>

\* none of the functions and handlers is running
ToolsIdle ==
  /\ ExtractorIdle
  /\ ConverterIdle
  /\ CountIdle
  /\ RetryIdle
  /\ EmbeddingsIdle

\* nothing but ingestion is running
OutsideIngestIdle ==
  /\ SearchIdle
  /\ ChatIdle
  /\ ValidatorIdle
  /\ ToolsIdle

(* ---------------------------- helpers ---------------------------------- *)
Min(a, b) == IF a < b THEN a ELSE b

Max(a, b) == IF a > b THEN a ELSE b

\* Array.prototype.slice index normalisation
RelIndex(k, len) == IF k < 0 THEN Max(len + k, 0) ELSE Min(k, len)

\* Array.prototype.slice(from, to) on a 0-based array
Slice(arr, from, to) ==
  SubSeq(arr, RelIndex(from, Len(arr)) + 1, RelIndex(to, Len(arr)))

\* Math.ceil(n / b) for n >= 0, b >= 1
CeilDiv(n, b) == (n + b - 1) \div b

RECURSIVE Flatten(_)
Flatten(ss) == IF ss = <<>> THEN <<>> ELSE Head(ss) \o Flatten(Tail(ss))

RECURSIVE Pow2(_)
Pow2(k) == IF k <= 0 THEN 1 ELSE 2 * Pow2(k - 1)

(* ------------------- PineconeStorage.upsertRecords --------------------- *)
\* The exception index.upsertRecords throws for store call c.
StoreError(c) == [storeError |-> c]

\* variant: processedCount is assigned before the store call is awaited
UpsertRecordsCountsEarly(batch, c, storeThrows) ==
  IF ~storeThrows
  THEN [kind |-> "return",
        value |-> [success |-> TRUE, processedCount |-> Len(batch),
                   failedCount |-> 0, errors |-> <<>>]]
  ELSE [kind |-> "return",
        value |-> [success |-> FALSE, processedCount |-> Len(batch),
                   failedCount |-> Len(batch) - Len(batch),
                   errors |-> << [code |-> "UPSERT_ERROR",
                                  details |-> StoreError(c)] >>]]

\* variant: the catch block rethrows the store exception
UpsertRecordsRethrows(batch, c, storeThrows) ==
  IF ~storeThrows
  THEN [kind |-> "return",
        value |-> [success |-> TRUE, processedCount |-> Len(batch),
                   failedCount |-> 0, errors |-> <<>>]]
  ELSE [kind |-> "throw", error |-> StoreError(c)]

\* variant: the catch block does not push an error entry
UpsertRecordsDropsError(batch, c, storeThrows) ==
  IF ~storeThrows
  THEN [kind |-> "return",
        value |-> [success |-> TRUE, processedCount |-> Len(batch),
                   failedCount |-> 0, errors |-> <<>>]]
  ELSE [kind |-> "return",
        value |-> [success |-> FALSE, processedCount |-> 0,
                   failedCount |-> Len(batch) - 0, errors |-> <<>>]]

\* upsertRecords(indexName, records, namespace): what the call produces when
\* the store call c accepts the batch (storeThrows = FALSE) or throws.
UpsertRecords(batch, c, storeThrows) ==
  IF ~storeThrows
  THEN [kind |-> "return",
        value |-> [success |-> TRUE,
                   processedCount |-> Len(batch),
                   failedCount |-> 0,
                   errors |-> <<>>]]
  ELSE [kind |-> "return",
        value |-> [success |-> FALSE,
                   processedCount |-> 0,
                   failedCount |-> Len(batch) - 0,
                   errors |-> << [code |-> "UPSERT_ERROR",
                                  details |-> StoreError(c)] >>]]

(* ----------------- PineconeStorage.batchUpsertRecords ------------------ *)
\* variant: the slice starts at 0 instead of i
BatchAtFromStart(recs, idx, size) == Slice(recs, 0, idx + size)

\* const batch = records.slice(i, i + batchSize)
BatchAt(recs, idx, size) == Slice(recs, idx, idx + size)

\* variant: the loop steps one too far
NextIndexSkips(idx, size) == idx + size + 1

\* numbers are doubles: far enough below zero, adding a small negative step
\* gives the same number back; the model's numbers reach that point here
LeastNumber == -(2 * MaxBatchSize)

\* i += batchSize
NextIndex(idx, size) == Max(idx + size, LeastNumber)

\* if (i + batchSize < records.length) await setTimeout(100)
DelayFollows(idx, size, len) == idx + size < len

\* variant: the upsertRecords call is not awaited
AfterSubmitNoAwait == "loop"

\* position of the run after it handed a batch to upsertRecords
AfterSubmit == "await"

\* variant: success does not look at the accumulated errors
NormalResultAlwaysOk(errs, processed, len) ==
  [success |-> TRUE,
   processedCount |-> processed,
   failedCount |-> len - processed,
   errors |-> errs]

\* the object of the normal return
NormalResult(errs, processed, len) ==
  [success |-> Len(errs) = 0,
   processedCount |-> processed,
   failedCount |-> len - processed,
   errors |-> errs]

\* the object returned from the catch block
CatchResult(errs, processed, len, error) ==
  [success |-> FALSE,
   processedCount |-> processed,
   failedCount |-> len - processed,
   errors |-> Append(errs, [code |-> "BATCH_ERROR", details |-> error])]

\* the store-side logs keep this many calls, more than any run that walks
\* forward through the records can make; later calls are logged as the last
CallCap == MaxRecords + 2

\* log.push(x) for a log that keeps cap entries
Logged(log, x, cap) == IF Len(log) < cap THEN Append(log, x) ELSE log

\* loop test true: slice the next batch and call upsertRecords, which calls
\* index.upsertRecords and suspends
BatchSubmit ==
  /\ UNCHANGED <<scraperVars, outsideIngest>>
  /\ UNCHANGED <<caller, ingestReply>>
  /\ pc = "loop"
  /\ i < Len(records)
  /\ calls' = Logged(calls, BatchAt(records, i, batchSize), CallCap)
  /\ inFlight' = inFlight \cup {Min(Len(calls) + 1, CallCap)}
  /\ events' = Logged(events, "call", 3 * CallCap)
  /\ pc' = AfterSubmit
  /\ UNCHANGED <<records, batchSize, i, totalProcessed, allErrors, lastUpsert,
                 batchResult, outcomes>>

\* the store answers a call; upsertRecords resumes and produces its result,
\* the loop body accumulates it (the store fails only calls the logs hold
\* in full)
StoreAnswer ==
  /\ UNCHANGED <<scraperVars, outsideIngest>>
  /\ UNCHANGED <<caller, ingestReply>>
  /\ inFlight # {}
  /\ \E c \in inFlight, storeThrows \in BOOLEAN :
       LET r == UpsertRecords(calls[c], c, storeThrows) IN
       /\ storeThrows => c < CallCap
       /\ inFlight' = inFlight \ {c}
       /\ outcomes' = Logged(outcomes, ~storeThrows, CallCap)
       /\ events' = Logged(events, IF storeThrows THEN "fail" ELSE "ok",
                           3 * CallCap)
       /\ lastUpsert' = [batch |-> calls[c], call |-> c,
                         storeThrows |-> storeThrows, result |-> r]
       /\ IF r.kind = "return"
          THEN /\ totalProcessed' = totalProcessed + r.value.processedCount
               /\ allErrors' = allErrors \o r.value.errors
               /\ batchResult' = batchResult
               /\ IF DelayFollows(i, batchSize, Len(records))
                  THEN pc' = "delay" /\ i' = i
                  ELSE pc' = "loop" /\ i' = NextIndex(i, batchSize)
          ELSE /\ batchResult' = CatchResult(allErrors, totalProcessed,
                                             Len(records), r.error)
               /\ pc' = "done"
               /\ UNCHANGED <<totalProcessed, allErrors, i>>
  /\ UNCHANGED <<records, batchSize, calls>>

\* the 100 ms pause between two batches has elapsed
BatchDelay ==
  /\ UNCHANGED <<scraperVars, outsideIngest>>
  /\ UNCHANGED <<caller, ingestReply>>
  /\ pc = "delay"
  /\ events' = Logged(events, "delay", 3 * CallCap)
  /\ i' = NextIndex(i, batchSize)
  /\ pc' = "loop"
  /\ UNCHANGED <<records, batchSize, totalProcessed, allErrors, lastUpsert,
                 batchResult, calls, outcomes, inFlight>>

\* loop test false: return the accumulated BatchResult
BatchReturn ==
  /\ UNCHANGED <<scraperVars, outsideIngest>>
  /\ UNCHANGED <<caller, ingestReply>>
  /\ pc = "loop"
  /\ ~(i < Len(records))
  /\ batchResult' = NormalResult(allErrors, totalProcessed, Len(records))
  /\ pc' = "done"
  /\ UNCHANGED <<records, batchSize, i, totalProcessed, allErrors, lastUpsert,
                 calls, outcomes, inFlight, events>>

(* ------------- callers of batchUpsertRecords: what they report --------- *)
\* POST /api/embeddings and scripts/setup-pinecone.ts main
IngestCallers == {"embeddings_route", "setup_script"}

\* POST /api/embeddings after batchUpsertRecords returned result: the 200
\* body, or the 500 of the outer catch when getIndexStats throws
EmbeddingsResponse(result, statsThrows) ==
  IF statsThrows
  THEN [kind |-> "http", status |-> 500, success |-> FALSE,
        cause |-> "stats_error"]
  ELSE [kind |-> "http", status |-> 200, success |-> TRUE,
        processed |-> result.processedCount,
        failed |-> result.failedCount]

\* setup-pinecone main after batchUpsertRecords returned result: prints the
\* outcome, reads the index stats, prints "Setup complete!"; process.exit(1)
\* only from the catch
SetupExit(result, statsThrows) ==
  IF statsThrows
  THEN [kind |-> "exit", code |-> 1,
        printed |-> IF result.success THEN "uploaded" ELSE "upload_failed",
        cause |-> "stats_error"]
  ELSE [kind |-> "exit", code |-> 0,
        printed |-> IF result.success THEN "uploaded" ELSE "upload_failed",
        errors |-> IF result.success THEN <<>> ELSE result.errors]

\* the caller resumes with the BatchResult, reads the index statistics and
\* reports
IngestReport ==
  /\ UNCHANGED <<scraperVars, outsideIngest>>
  /\ pc = "done"
  /\ \E statsThrows \in BOOLEAN :
       ingestReply' = IF caller = "embeddings_route"
                      THEN EmbeddingsResponse(batchResult, statsThrows)
                      ELSE SetupExit(batchResult, statsThrows)
  /\ pc' = "reported"
  /\ UNCHANGED <<records, batchSize, i, totalProcessed, allErrors, lastUpsert,
                 batchResult, calls, outcomes, inFlight, events, caller>>

\* the scraper is not running
ScraperIdle ==
  /\ maxRetries = 1
  /\ saveRawResult = TRUE
  /\ saveProcessedResult = TRUE
  /\ spc = "idle"
  /\ attempt = 0
  /\ lastError = None
  /\ fetchCalls = 0
  /\ content = None
  /\ attemptLog = <<>>
  /\ waits = <<>>
  /\ written = <<>>
  /\ scrapeOutcome = None
  /\ files = <<>>
  /\ clock = 0
  /\ entry = "none"
  /\ saveToFile = FALSE
  /\ filename = NoName
  /\ scrapeReply = None
  /\ requests = 0

StorageInit ==
  /\ ScraperIdle
  /\ OutsideIngestIdle
  /\ records \in {[k \in 1..n |-> k] : n \in 0..MaxRecords}
  /\ batchSize \in 1..MaxBatchSize
  /\ pc = "loop"
  /\ i = 0
  /\ totalProcessed = 0
  /\ allErrors = <<>>
  /\ lastUpsert = None
  /\ batchResult = None
  /\ calls = <<>>
  /\ outcomes = <<>>
  /\ inFlight = {}
  /\ events = <<>>
  /\ caller \in IngestCallers
  /\ ingestReply = None

StorageNext ==
  \/ BatchSubmit
  \/ StoreAnswer
  \/ BatchDelay
  \/ BatchReturn
  \/ IngestReport

StorageSpec == StorageInit /\ [][StorageNext]_vars

(* ------------- scripts/setup-pinecone.ts setup: the upload ------------- *)
\* const batchSize = parseInt(options.batchSize) || 100, for an option that
\* parses to the integer opt
ParseBatchSize(opt) == IF opt = 0 THEN 100 ELSE opt

\* the integers the --batch-size option is drawn from
BatchSizeOptions == (-MaxBatchSize)..MaxBatchSize

SetupUploadInit ==
  /\ ScraperIdle
  /\ OutsideIngestIdle
  /\ records \in {[k \in 1..n |-> k] : n \in 0..MaxRecords}
  /\ batchSize \in {ParseBatchSize(opt) : opt \in BatchSizeOptions}
  /\ pc = "loop"
  /\ i = 0
  /\ totalProcessed = 0
  /\ allErrors = <<>>
  /\ lastUpsert = None
  /\ batchResult = None
  /\ calls = <<>>
  /\ outcomes = <<>>
  /\ inFlight = {}
  /\ events = <<>>
  /\ caller = "setup_script"
  /\ ingestReply = None

SetupUploadNext ==
  \/ BatchSubmit
  \/ StoreAnswer
  \/ BatchDelay
  \/ BatchReturn
  \/ IngestReport

SetupUploadSpec == SetupUploadInit /\ [][SetupUploadNext]_vars

\* every started store call is answered, every timer fires and every
\* continuation of the run is scheduled
SetupUploadFairSpec == SetupUploadSpec /\ WF_vars(SetupUploadNext)

(* --------------------- AvenScraper.scrapeWithRetry --------------------- *)
\* the AvenSupportData built from the text fetched by getContents call f
ScrapedData(f) == [kind |-> "data", fetch |-> f]

\* new Date().toISOString().replace(/[:.]/g, '-') read at clock value t
Timestamp(t) == [stamp |-> t]

\* path.join(process.cwd(), 'data', 'raw', `aven-support-raw-exa-${ts}.json`)
RawPath(t) == [dir |-> "raw", name |-> Timestamp(t)]

\* filename || `aven-support-scraped-${timestamp}.json`, joined to
\* data/scraped
ScrapedPath(name, t) ==
  [dir |-> "scraped", name |-> IF name = NoName THEN Timestamp(t) ELSE name]

\* JSON.stringify of the AvenSupportData of request req built from fetch f;
\* metadata.scraped_at makes the snapshots of different runs differ
SnapshotContent(req, f) == [request |-> req, data |-> ScrapedData(f)]

\* fs.writeFile(filePath, text): creates the file or replaces its content
WriteFile(fs, path, text) ==
  [q \in DOMAIN fs \cup {path} |-> IF q = path THEN text ELSE fs[q]]

\* what exaClient.getContents can do: throw, or resolve to a falsy result, a
\* result without results, a first result without text, a first result with
\* text
FetchAnswers == {"throw", "null", "empty", "notext", "text"}

\* for (...; attempt <= maxRetries; ...)
LoopTest(att, retries) == att <= retries

\* variant: the loop gives up one attempt early
IsLastAttemptEarly(att, retries) == att >= retries - 1

\* if (attempt === maxRetries) break
IsLastAttempt(att, retries) == att = retries

\* variant: the exponent starts at 0
BackoffDelayFromZero(att) == Pow2(att - 1) * 1000

\* const delay = Math.pow(2, attempt) * 1000
BackoffDelay(att) == Pow2(att) * 1000

\* new Error(`Failed to scrape Aven support page: ${error.message}`), thrown
\* by attempt att for the underlying cause
ScrapeError(att, cause) == [kind |-> "Error", attempt |-> att, cause |-> cause]

\* scrapeAvenSupport returns the scrapedData built from fetch f;
\* scrapeWithRetry returns it
AttemptReturns(f) ==
  /\ attemptLog' = Append(attemptLog,
                          [ok |-> TRUE, extracted |-> TRUE, error |-> None])
  /\ scrapeOutcome' = [kind |-> "return", data |-> ScrapedData(f)]
  /\ spc' = "returned"
  /\ UNCHANGED <<lastError, waits, attempt>>

\* scrapeAvenSupport's catch wraps and rethrows; scrapeWithRetry's catch
\* records the error and either breaks out to the throw or starts the wait
AttemptFails(cause, extracted) ==
  LET error == ScrapeError(attempt, cause) IN
  /\ attemptLog' = Append(attemptLog,
                          [ok |-> FALSE, extracted |-> extracted,
                           error |-> error])
  /\ lastError' = error
  /\ attempt' = attempt
  /\ IF IsLastAttempt(attempt, maxRetries)
     THEN /\ scrapeOutcome' = [kind |-> "throw", error |-> error]
          /\ spc' = "thrown"
          /\ waits' = waits
     ELSE /\ waits' = Append(waits, BackoffDelay(attempt))
          /\ spc' = "wait"
          /\ scrapeOutcome' = scrapeOutcome

\* scrapeAvenSupport from the result guards on: the two guards, extraction and
\* validation (neither throws), then the processed save if enabled
ProcessContent(answer, f) ==
  IF answer \in {"null", "empty"}
  THEN AttemptFails("no_content", FALSE)
  ELSE IF answer = "notext"
  THEN AttemptFails("no_text", FALSE)
  ELSE IF saveProcessedResult
  THEN /\ spc' = "saveProcessed"
       /\ UNCHANGED <<attemptLog, lastError, attempt, waits, scrapeOutcome>>
  ELSE AttemptReturns(f)

\* loop head: enter the body and call getContents, or leave the loop and
\* throw lastError
ScrapeLoop ==
  /\ UNCHANGED <<storageVars, outsideIngest>>
  /\ spc = "loop"
  /\ IF LoopTest(attempt, maxRetries)
     THEN /\ fetchCalls' = fetchCalls + 1
          /\ spc' = "fetch"
          /\ scrapeOutcome' = scrapeOutcome
     ELSE /\ scrapeOutcome' = [kind |-> "throw", error |-> lastError]
          /\ spc' = "thrown"
          /\ fetchCalls' = fetchCalls
  /\ UNCHANGED <<maxRetries, saveRawResult, saveProcessedResult, attempt,
                 lastError, content, attemptLog, waits, written, files, clock,
                 entry, saveToFile, filename, scrapeReply, requests>>

\* getContents settles
FetchAnswer ==
  /\ UNCHANGED <<storageVars, outsideIngest>>
  /\ spc = "fetch"
  /\ \E answer \in FetchAnswers :
       /\ content' = [call |-> fetchCalls, answer |-> answer]
       /\ IF answer = "throw"
          THEN AttemptFails("fetch", FALSE)
          ELSE IF saveRawResult
          THEN /\ spc' = "saveRaw"
               /\ UNCHANGED <<attemptLog, lastError, attempt, waits,
                              scrapeOutcome>>
          ELSE ProcessContent(answer, fetchCalls)
  /\ clock' = clock + 1
  /\ UNCHANGED <<maxRetries, saveRawResult, saveProcessedResult, fetchCalls,
                 written, files, entry, saveToFile, filename, scrapeReply,
                 requests>>

\* saveRawExaResult settles: the raw snapshot is written or writeFile throws
SaveRawSettles ==
  /\ UNCHANGED <<storageVars, outsideIngest>>
  /\ spc = "saveRaw"
  /\ \E writeOk \in BOOLEAN :
       /\ clock' = clock
       /\ IF writeOk
          THEN /\ written' = Append(written,
                                    [bucket |-> "raw", by |-> "scraper",
                                     path |-> RawPath(clock)])
               /\ files' = WriteFile(files, RawPath(clock), content)
               /\ ProcessContent(content.answer, content.call)
          ELSE /\ written' = written
               /\ files' = files
               /\ AttemptFails("raw_write", FALSE)
  /\ UNCHANGED <<maxRetries, saveRawResult, saveProcessedResult, fetchCalls,
                 content, entry, saveToFile, filename, scrapeReply, requests>>

\* saveScrapedData settles: the processed snapshot is written or writeFile
\* throws
SaveProcessedSettles ==
  /\ UNCHANGED <<storageVars, outsideIngest>>
  /\ spc = "saveProcessed"
  /\ \E writeOk \in BOOLEAN :
       /\ clock' = clock
       /\ IF writeOk
          THEN /\ written' = Append(written,
                                    [bucket |-> "processed", by |-> "scraper",
                                     path |-> ScrapedPath(NoName, clock)])
               /\ files' = WriteFile(files, ScrapedPath(NoName, clock),
                                     SnapshotContent(requests, content.call))
               /\ AttemptReturns(content.call)
          ELSE /\ written' = written
               /\ files' = files
               /\ AttemptFails("processed_write", TRUE)
  /\ UNCHANGED <<maxRetries, saveRawResult, saveProcessedResult, fetchCalls,
                 content, entry, saveToFile, filename, scrapeReply, requests>>

\* the backoff timer fires; attempt++
WaitElapsed ==
  /\ UNCHANGED <<storageVars, outsideIngest>>
  /\ spc = "wait"
  /\ attempt' = attempt + 1
  /\ spc' = "loop"
  /\ clock' = clock + 1
  /\ UNCHANGED <<maxRetries, saveRawResult, saveProcessedResult, lastError,
                 fetchCalls, content, attemptLog, waits, written,
                 scrapeOutcome, files, entry, saveToFile, filename,
                 scrapeReply, requests>>

\* no batch upsert is running
StorageIdle ==
  /\ records = <<>>
  /\ batchSize = 1
  /\ pc = "idle"
  /\ i = 0
  /\ totalProcessed = 0
  /\ allErrors = <<>>
  /\ lastUpsert = None
  /\ batchResult = None
  /\ calls = <<>>
  /\ outcomes = <<>>
  /\ inFlight = {}
  /\ events = <<>>
  /\ caller = "none"
  /\ ingestReply = None

ScraperInit ==
  /\ StorageIdle
  /\ OutsideIngestIdle
  /\ maxRetries \in (-1)..MaxRetries
  /\ saveRawResult \in BOOLEAN
  /\ saveProcessedResult \in BOOLEAN
  /\ spc = "loop"
  /\ attempt = 1
  /\ lastError = None
  /\ fetchCalls = 0
  /\ content = None
  /\ attemptLog = <<>>
  /\ waits = <<>>
  /\ written = <<>>
  /\ scrapeOutcome = None
  /\ files = <<>>
  /\ clock = 0
  /\ entry = "api"
  /\ saveToFile = FALSE
  /\ filename = NoName
  /\ scrapeReply = None
  /\ requests = 1

ScraperNext ==
  \/ ScrapeLoop
  \/ FetchAnswer
  \/ SaveRawSettles
  \/ SaveProcessedSettles
  \/ WaitElapsed

ScraperSpec == ScraperInit /\ [][ScraperNext]_vars

(* --------------------------- POST /api/scrape -------------------------- *)
\* filenames a request body can carry
Filenames == {[kind |-> "string", text |-> "custom.json"]}

\* error instanceof Error ? error.message : "Unknown error occurred"
ErrorMessage(error) ==
  IF error = None THEN [text |-> "Unknown error occurred"]
  ELSE [text |-> "Failed to scrape", attempt |-> error.attempt,
        cause |-> error.cause]

\* the 500 response of the catch block
ScrapeFailureResponse(error) ==
  [kind |-> "http", status |-> 500, success |-> FALSE,
   message |-> ErrorMessage(error)]

\* the 200 response
ScrapeSuccessResponse(data, savedFilePath) ==
  [kind |-> "http", status |-> 200, success |-> TRUE, faqs |-> data,
   saved_file |-> savedFilePath]

\* scrapeWithRetry settled: the handler saves the snapshot if asked to and
\* answers, or answers 500 from its catch block
RouteReply ==
  /\ UNCHANGED <<storageVars, outsideIngest>>
  /\ entry = "route"
  /\ spc \in {"returned", "thrown"}
  /\ IF spc = "thrown"
     THEN /\ scrapeReply' = ScrapeFailureResponse(scrapeOutcome.error)
          /\ UNCHANGED <<files, clock, written>>
     ELSE IF ~saveToFile
     THEN /\ scrapeReply' = ScrapeSuccessResponse(scrapeOutcome.data, None)
          /\ UNCHANGED <<files, clock, written>>
     ELSE \E writeOk \in BOOLEAN, tick \in {0, 1} :
            LET path == ScrapedPath(filename, clock) IN
            /\ clock' = clock + tick
            /\ IF writeOk
               THEN /\ files' = WriteFile(files, path,
                                          SnapshotContent(requests,
                                            scrapeOutcome.data.fetch))
                    /\ written' = Append(written,
                                         [bucket |-> "processed",
                                          by |-> "route", path |-> path])
                    /\ scrapeReply' =
                         ScrapeSuccessResponse(scrapeOutcome.data, path)
               ELSE /\ files' = files
                    /\ written' = written
                    /\ scrapeReply' =
                         [kind |-> "http", status |-> 500, success |-> FALSE,
                          message |-> [text |-> "write_error"]]
  /\ spc' = "replied"
  /\ UNCHANGED <<maxRetries, saveRawResult, saveProcessedResult, attempt,
                 lastError, fetchCalls, content, attemptLog, waits,
                 scrapeOutcome, entry, saveToFile, filename, requests>>

\* a second POST /api/scrape arrives, asking for one or two tries: a new
\* scrapeWithRetry run starts on the same file system
NextRequest ==
  /\ UNCHANGED <<storageVars, outsideIngest>>
  /\ entry = "route"
  /\ spc = "replied"
  /\ requests = 1
  /\ requests' = requests + 1
  /\ maxRetries' \in {1, 2}
  /\ saveToFile' \in BOOLEAN
  /\ filename' \in Filenames \cup {NoName}
  /\ spc' = "loop"
  /\ attempt' = 1
  /\ lastError' = None
  /\ fetchCalls' = 0
  /\ content' = None
  /\ attemptLog' = <<>>
  /\ waits' = <<>>
  /\ written' = <<>>
  /\ scrapeOutcome' = None
  /\ scrapeReply' = None
  /\ UNCHANGED <<saveRawResult, saveProcessedResult, files, clock, entry>>

\* the first POST /api/scrape: scrapeWithRetry(maxRetries) runs with both
\* save flags at their default
ScrapeRouteInit ==
  /\ StorageIdle
  /\ OutsideIngestIdle
  /\ maxRetries \in (-1)..MaxRetries
  /\ saveRawResult = TRUE
  /\ saveProcessedResult = TRUE
  /\ saveToFile \in BOOLEAN
  /\ filename \in Filenames \cup {NoName}
  /\ entry = "route"
  /\ requests = 1
  /\ spc = "loop"
  /\ attempt = 1
  /\ lastError = None
  /\ fetchCalls = 0
  /\ content = None
  /\ attemptLog = <<>>
  /\ waits = <<>>
  /\ written = <<>>
  /\ scrapeOutcome = None
  /\ files = <<>>
  /\ clock = 0
  /\ scrapeReply = None

ScrapeRouteNext ==
  \/ ScrapeLoop
  \/ FetchAnswer
  \/ SaveRawSettles
  \/ SaveProcessedSettles
  \/ WaitElapsed
  \/ RouteReply
  \/ NextRequest

ScrapeRouteSpec == ScrapeRouteInit /\ [][ScrapeRouteNext]_vars

(* --------------------------- PineconeSearch ---------------------------- *)
\* largest small topK a caller asks for
MaxTopK == 3

\* const topK = config.topK || 10
DefaultTopK == 10

\* topK: Math.min(topK * 5, 100)
OverFetchFactor == 5

MaxCandidates == 100

\* Math.min((config.topK || 10) * 2, 100)
RerankFactor == 2

\* x || d for a number x; 0 stands for an absent or zero value
OrDefault(x, d) == IF x = 0 THEN d ELSE x

\* strings are sequences of characters
Lower(ch) == IF ch = "P" THEN "p" ELSE IF ch = "C" THEN "c" ELSE ch

ToLowerCase(str) == [k \in 1..Len(str) |-> Lower(str[k])]

\* t.includes(q)
Includes(t, q) ==
  \E o \in 0..(Len(t) - Len(q)) : \A k \in 1..Len(q) : t[o + k] = q[k]

\* str.split(/\s+/): acc holds the finished words, cur the word being read,
\* inRun tells that the last character read was white space
RECURSIVE SplitWords(_, _, _, _)
SplitWords(str, acc, cur, inRun) ==
  IF str = <<>> THEN Append(acc, cur)
  ELSE IF Head(str) = " "
       THEN IF inRun THEN SplitWords(Tail(str), acc, cur, TRUE)
            ELSE SplitWords(Tail(str), Append(acc, cur), <<>>, TRUE)
       ELSE SplitWords(Tail(str), acc, Append(cur, Head(str)), FALSE)

Range(seq) == {seq[k] : k \in 1..Len(seq)}

\* the text of a request: "Pay by Card"
UserQuery == <<"P", "a", "y", " ", "b", "y", " ", "C", "a", "r", "d">>

\* const searchQuery = "similar documents"
SimilarQuery ==
  <<"s", "i", "m", "i", "l", "a", "r", " ",
    "d", "o", "c", "u", "m", "e", "n", "t", "s">>

\* the records an index can hold, with the scores the store and its reranker
\* give them (thousandths)
Docs ==
  { [id |-> "faq1", category |-> "Payments", source |-> "aven",
     sim |-> 900, rel |-> 500,
     chunk_text |-> <<"P", "a", "y", " ", "b", "y", " ", "c", "a", "r", "d">>],
    [id |-> "faq2", category |-> "Payments", source |-> "aven",
     sim |-> 800, rel |-> 900,
     chunk_text |-> <<"c", "a", "r", "d", "s">>],
    [id |-> "faq3", category |-> "Rewards", source |-> "aven",
     sim |-> 700, rel |-> 700,
     chunk_text |-> <<"p", "a", "y", " ", " ", "o", "u", "t">>],
    [id |-> "faq4", category |-> "Account", source |-> "other",
     sim |-> 600, rel |-> 800,
     chunk_text |-> <<"l", "o", "g", "i", "n">>] }

\* filter expressions: a set of constraints, one per key
Eq(key, v) == [key |-> key, op |-> "$eq", vals |-> {v}]

In(key, vs) == [key |-> key, op |-> "$in", vals |-> vs]

\* { ...a, ...b }: a key of b replaces the same key of a
Spread(a, b) == {e \in a : \A f \in b : f.key # e.key} \cup b

\* the store honours the filter it is sent
Matches(doc, filter) == \A e \in filter : doc[e.key] \in e.vals

RECURSIVE RankDocs(_, _)
RankDocs(S, field) ==
  IF S = {} THEN <<>>
  ELSE LET top == CHOOSE d \in S : \A e \in S : e[field] <= d[field]
       IN <<top>> \o RankDocs(S \ {top}, field)

\* index.searchRecords({query, rerank}): the topK nearest matching records,
\* reranked, the best topN of them returned
StoreSearch(docs, req) ==
  LET matching == {d \in docs : Matches(d, req.filter)}
      candidates == Slice(RankDocs(matching, "sim"), 0, req.topK)
      reranked == Slice(RankDocs(Range(candidates), "rel"), 0, req.topN)
  IN [k \in 1..Len(reranked) |->
        [id |-> reranked[k].id, score |-> reranked[k].rel,
         fields |-> [category |-> reranked[k].category,
                     source |-> reranked[k].source,
                     chunk_text |-> reranked[k].chunk_text]]]

\* variant: the request carries no filter
SemanticSearchRequestNoFilter(query, config) ==
  LET topK == OrDefault(config.topK, DefaultTopK)
  IN [op |-> "searchRecords", text |-> query,
      topK |-> Min(topK * OverFetchFactor, MaxCandidates),
      filter |-> {}, topN |-> topK]

\* the argument of index.searchRecords in semanticSearch
SemanticSearchRequest(query, config) ==
  LET topK == OrDefault(config.topK, DefaultTopK)
  IN [op |-> "searchRecords", text |-> query,
      topK |-> Min(topK * OverFetchFactor, MaxCandidates),
      filter |-> config.filter, topN |-> topK]

\* (hit.score as number) || 0
HitScore(hit) == IF "score" \in DOMAIN hit THEN OrDefault(hit.score, 0) ELSE 0

ToSearchResult(hit) ==
  [id |-> hit.id, score |-> HitScore(hit), metadata |-> hit.fields]

\* variant: the catch block answers with an empty result
SemanticSearchCatchEmpty(error, query) ==
  [kind |-> "return", results |-> <<>>, totalResults |-> 0, query |-> query]

\* catch (error) { throw error }
SemanticSearchCatch(error, query) == [kind |-> "throw", error |-> error]

\* what semanticSearch gives its caller once the store has answered
SemanticSearchSettles(answer, query) ==
  IF answer.kind = "throw" THEN SemanticSearchCatch(answer.error, query)
  ELSE LET results ==
             IF answer.kind = "nohits" THEN <<>>
             ELSE [k \in 1..Len(answer.hits) |-> ToSearchResult(answer.hits[k])]
       IN [kind |-> "return", results |-> results,
           totalResults |-> Len(results), query |-> query]

\* categorySearch: { ...config, filter: { category: {$eq}, ...config.filter } }
CategorySearchConfig(config) ==
  [config EXCEPT !.filter = Spread({Eq("category", config.category)},
                                   config.filter)]

\* multiCategorySearch: { ...config, filter: { category: {$in}, ... } }
MultiCategorySearchConfig(categories, config) ==
  [config EXCEPT !.filter = Spread({In("category", categories)},
                                   config.filter)]

\* findSimilar: { ...config, topK: (config.topK || 10) + 1, filter: {...} }
FindSimilarConfig(config) ==
  [config EXCEPT !.topK = OrDefault(config.topK, DefaultTopK) + 1,
                 !.filter = Spread({}, config.filter)]

\* searchWithReranking: { ...config, topK: Math.min((topK || 10) * 2, 100) }
RerankingConfig(config) ==
  [config EXCEPT !.topK = Min(OrDefault(config.topK, DefaultTopK) * RerankFactor,
                              MaxCandidates)]

\* the query and config a method hands to semanticSearch
SemanticArgs(call) ==
  CASE call.fn \in {"semanticSearch", "hybridSearch"} ->
         [query |-> call.query, config |-> call.config]
    [] call.fn = "categorySearch" ->
         [query |-> call.query, config |-> CategorySearchConfig(call.config)]
    [] call.fn = "multiCategorySearch" ->
         [query |-> call.query,
          config |-> MultiCategorySearchConfig(call.categories, call.config)]
    [] call.fn = "findSimilar" ->
         [query |-> SimilarQuery, config |-> FindSimilarConfig(call.config)]
    [] call.fn = "searchWithReranking" ->
         [query |-> call.query, config |-> RerankingConfig(call.config)]

\* variant: findSimilar fetches the document by id first
StoreOpsFetchFirst(call) ==
  IF call.fn = "findSimilar"
  THEN <<[op |-> "fetch", ids |-> {call.documentId}],
         SemanticSearchRequest(SemanticArgs(call).query,
                               SemanticArgs(call).config)>>
  ELSE <<SemanticSearchRequest(SemanticArgs(call).query,
                               SemanticArgs(call).config)>>

\* the store operations a method issues
StoreOps(call) ==
  <<SemanticSearchRequest(SemanticArgs(call).query, SemanticArgs(call).config)>>

\* number of query words longer than two characters that some word of the
\* text includes
KeywordScore(query, text) ==
  LET LongWord(w) == Len(w) > 2
      queryWords == SelectSeq(SplitWords(ToLowerCase(query), <<>>, <<>>, FALSE),
                              LongWord)
      textWords == SplitWords(ToLowerCase(text), <<>>, <<>>, FALSE)
  IN Cardinality({k \in 1..Len(queryWords) :
                    \E j \in 1..Len(textWords) :
                      Includes(textWords[j], queryWords[k])})

\* results.sort((a, b) => b.score - a.score): stable, highest score first
RECURSIVE SortByScore(_)
SortByScore(results) ==
  IF results = <<>> THEN <<>>
  ELSE LET h == Head(results)
           rest == SortByScore(Tail(results))
           before == Cardinality({k \in 1..Len(rest) : rest[k].score > h.score})
       IN SubSeq(rest, 1, before) \o <<h>> \o SubSeq(rest, before + 1, Len(rest))

\* simulateReranking(results, query): combinedScore = (result.score * 0.7) +
\* (keywordScore * 0.3), scores counted in thousandths
SimulateReranking(results, query) ==
  SortByScore([k \in 1..Len(results) |->
    [results[k] EXCEPT !.score =
       (results[k].score * 7) \div 10
         + KeywordScore(query, results[k].metadata.chunk_text) * 300]])

\* what the running method gives its caller once semanticSearch has settled
MethodSettles(call, settled) ==
  IF call.fn = "searchWithReranking" /\ settled.kind = "return"
  THEN LET finalResults ==
             Slice(SimulateReranking(settled.results, call.query), 0,
                   OrDefault(call.config.topK, DefaultTopK))
       IN [settled EXCEPT !.results = finalResults,
                          !.totalResults = Len(finalResults)]
  ELSE settled

(* --------------------------- POST /api/search -------------------------- *)
\* const searchConfig = { topK: topK || 10, ..., filter }
RouteSearchConfig(req) ==
  [topK |-> OrDefault(req.topK, DefaultTopK), filter |-> req.filter,
   category |-> ""]

LibCall(fn, req, config) ==
  [fn |-> fn, query |-> req.query, config |-> config,
   categories |-> req.categories, documentId |-> req.documentId]

SearchErrorResponse(status, error) ==
  [kind |-> "http", status |-> status, error |-> error]

\* the switch on searchType: a 400 response or the method to call
RouteDispatch(req) ==
  LET searchConfig == RouteSearchConfig(req)
      withCategory == [searchConfig EXCEPT !.category = req.category]
  IN CASE req.searchType = "category" ->
            IF req.category = ""
            THEN SearchErrorResponse(400, "Category required for category search")
            ELSE LibCall("categorySearch", req, withCategory)
       [] req.searchType = "similar" ->
            IF req.documentId = ""
            THEN SearchErrorResponse(400, "Document ID required for similar search")
            ELSE LibCall("findSimilar", req, searchConfig)
       [] req.searchType = "hybrid" ->
            LibCall("hybridSearch", req, searchConfig)
       [] OTHER ->
            IF req.categories # {}
            THEN LibCall("multiCategorySearch", req, searchConfig)
            ELSE IF req.category # ""
            THEN LibCall("categorySearch", req, withCategory)
            ELSE LibCall("semanticSearch", req, searchConfig)

\* if (useReranking && searchType !== 'similar')
RerankingApplies(req) == req.useReranking /\ req.searchType # "similar"

\* NextResponse.json({ success: true, ...result, ... })
SearchSuccessResponse(result) ==
  [kind |-> "http", status |-> 200, success |-> TRUE,
   results |-> result.results, totalResults |-> result.totalResults,
   query |-> result.query]

\* SearchRequestSchema.parse(body): topK: z.number().min(1).max(100).optional()
ValidTopK(topK) == topK = 0 \/ (topK >= 1 /\ topK <= MaxCandidates)

\* the handler parses the body
RouteParse ==
  /\ UNCHANGED outsideSearch
  /\ sEntry = "route"
  /\ sPc = "received"
  /\ IF ValidTopK(sReq.topK)
     THEN /\ sPc' = "checkIndex"
          /\ searchReply' = searchReply
     ELSE /\ sPc' = "replied"
          /\ searchReply' = SearchErrorResponse(400, "Invalid request parameters")
  /\ UNCHANGED <<sEntry, sReq, indexDocs, sPhase, sCall, storeOps,
                 storeAnswers>>

\* pineconeClient.indexExists settles; the handler picks the method
RouteCheckIndex ==
  /\ UNCHANGED outsideSearch
  /\ sEntry = "route"
  /\ sPc = "checkIndex"
  /\ \E indexExists \in {"yes", "no", "throw"} :
       IF indexExists = "throw"
       THEN /\ searchReply' = SearchErrorResponse(500, "Internal server error")
            /\ sPc' = "replied"
            /\ sCall' = sCall
       ELSE IF indexExists = "no"
       THEN /\ searchReply' = SearchErrorResponse(404, "Index not found")
            /\ sPc' = "replied"
            /\ sCall' = sCall
       ELSE IF "status" \in DOMAIN RouteDispatch(sReq)
       THEN /\ searchReply' = RouteDispatch(sReq)
            /\ sPc' = "replied"
            /\ sCall' = sCall
       ELSE /\ searchReply' = searchReply
            /\ sPc' = "call"
            /\ sCall' = RouteDispatch(sReq)
  /\ UNCHANGED <<sEntry, sReq, indexDocs, sPhase, storeOps, storeAnswers>>

\* the running method reaches its store call
IssueQuery ==
  /\ UNCHANGED outsideSearch
  /\ sPc = "call"
  /\ storeOps' = storeOps \o StoreOps(sCall)
  /\ sPc' = "query"
  /\ UNCHANGED <<sEntry, sReq, indexDocs, sPhase, sCall, storeAnswers,
                 searchReply>>

\* the answers a store can give to the last operation asked of it
StoreAnswerKinds == {"throw", "hits", "nohits"}

StoreAnswerOf(kind, docs, ops) ==
  IF kind = "throw" THEN [kind |-> "throw", error |-> [queryError |-> Len(ops)]]
  ELSE IF kind = "nohits" THEN [kind |-> "nohits"]
  ELSE [kind |-> "hits", hits |-> StoreSearch(docs, ops[Len(ops)])]

\* index.searchRecords settles: the method returns or throws; the handler
\* answers, or starts the reranking search
StoreAnswers ==
  /\ UNCHANGED outsideSearch
  /\ sPc = "query"
  /\ \E kind \in StoreAnswerKinds :
       LET answer == StoreAnswerOf(kind, indexDocs, storeOps)
           outcome == MethodSettles(sCall,
                        SemanticSearchSettles(answer, SemanticArgs(sCall).query))
       IN /\ storeAnswers' = Append(storeAnswers, answer)
          /\ IF sEntry = "api"
             THEN /\ searchReply' = outcome
                  /\ sPc' = "replied"
                  /\ UNCHANGED <<sCall, sPhase>>
             ELSE IF outcome.kind = "throw"
             THEN /\ searchReply' =
                       [kind |-> "http", status |-> 500,
                        error |-> "Internal server error",
                        message |-> outcome.error]
                  /\ sPc' = "replied"
                  /\ UNCHANGED <<sCall, sPhase>>
             ELSE IF RerankingApplies(sReq) /\ sPhase = "first"
             THEN /\ sCall' = LibCall("searchWithReranking", sReq,
                                      RouteSearchConfig(sReq))
                  /\ sPhase' = "rerank"
                  /\ sPc' = "call"
                  /\ searchReply' = searchReply
             ELSE /\ searchReply' = SearchSuccessResponse(outcome)
                  /\ sPc' = "replied"
                  /\ UNCHANGED <<sCall, sPhase>>
  /\ UNCHANGED <<sEntry, sReq, indexDocs, storeOps>>

\* what a caller can ask for
TopKs == {0} \cup 1..MaxTopK \cup {20, 60}

CallerFilters ==
  {{}, {Eq("category", "Rewards")}, {Eq("source", "aven")}}

CallerCategories == {"Payments", "Rewards"}

CategorySets == {{"Payments"}, {"Payments", "Account"}}

DocumentIds == {"faq1", "missing"}

Configs(topKs, categories) ==
  [topK : topKs, filter : CallerFilters, category : categories]

\* direct calls of the PineconeSearch methods
ApiCalls ==
  [fn : {"semanticSearch"}, query : {UserQuery},
   config : Configs(TopKs, CallerCategories \cup {""}),
   categories : {{}}, documentId : {""}]
  \cup
  [fn : {"hybridSearch", "searchWithReranking"}, query : {UserQuery},
   config : Configs(TopKs, {""}), categories : {{}}, documentId : {""}]
  \cup
  [fn : {"categorySearch"}, query : {UserQuery},
   config : Configs(TopKs, CallerCategories),
   categories : {{}}, documentId : {""}]
  \cup
  [fn : {"multiCategorySearch"}, query : {UserQuery},
   config : Configs(TopKs, {""}), categories : CategorySets,
   documentId : {""}]
  \cup
  [fn : {"findSimilar"}, query : {UserQuery},
   config : Configs(TopKs, {""}), categories : {{}},
   documentId : DocumentIds]

\* parsed bodies of POST /api/search
RouteRequests ==
  [query : {UserQuery}, topK : TopKs \cup {MaxCandidates + 1},
   filter : CallerFilters, category : CallerCategories \cup {""},
   categories : {{}, {"Payments", "Account"}}, documentId : {"", "faq1"},
   useReranking : BOOLEAN,
   searchType : {"", "semantic", "category", "hybrid", "similar"}]

\* nothing but the search layer is running
OutsideSearchIdle ==
  /\ StorageIdle
  /\ ScraperIdle
  /\ ChatIdle
  /\ ValidatorIdle
  /\ ToolsIdle

SearchInit ==
  /\ OutsideSearchIdle
  /\ indexDocs \in SUBSET Docs
  /\ sEntry \in {"api", "route"}
  /\ sReq \in (IF sEntry = "api" THEN ApiCalls ELSE RouteRequests)
  /\ sCall = (IF sEntry = "api" THEN sReq ELSE None)
  /\ sPc = (IF sEntry = "api" THEN "call" ELSE "received")
  /\ sPhase = "first"
  /\ storeOps = <<>>
  /\ storeAnswers = <<>>
  /\ searchReply = None

SearchNext ==
  \/ RouteParse
  \/ RouteCheckIndex
  \/ IssueQuery
  \/ StoreAnswers

SearchSpec == SearchInit /\ [][SearchNext]_vars

(* ---------------------------- POST /api/chat --------------------------- *)
\* longest conversation a request carries
MaxConversation == 2

\* const MAX_CONTEXT_LENGTH = 4000
MAX_CONTEXT_LENGTH == 4000

\* const SEARCH_RESULTS_COUNT = 5
SEARCH_RESULTS_COUNT == 5

\* number of characters of a category name
CategoryLength(c) == IF c = "Payments" THEN 8 ELSE 7

\* result.metadata?.original_text || result.metadata?.chunk_text || ''
ContextText(result) ==
  IF "original_text" \in DOMAIN result.metadata
       /\ result.metadata.original_text # <<>>
  THEN result.metadata.original_text
  ELSE IF "chunk_text" \in DOMAIN result.metadata
  THEN result.metadata.chunk_text
  ELSE <<>>

\* result.metadata?.category || 'General'
ContextCategory(result) ==
  IF "category" \in DOMAIN result.metadata /\ result.metadata.category # ""
  THEN result.metadata.category
  ELSE "General"

\* `[Context ${index + 1} - ${category} (relevance: ${score})]:\n${text}`:
\* the part and the number of its characters (score.toFixed(3) has five)
ContextPart(result, index) ==
  [index |-> index + 1, category |-> ContextCategory(result),
   score |-> result.score, text |-> ContextText(result),
   length |-> 9 + 1 + 3 + CategoryLength(ContextCategory(result)) + 13 + 5 + 4
                + Len(ContextText(result))]

RECURSIVE SumLengths(_)
SumLengths(parts) ==
  IF parts = <<>> THEN 0 ELSE Head(parts).length + SumLengths(Tail(parts))

\* contextParts.join('\n\n').substring(0, MAX_CONTEXT_LENGTH)
JoinContext(parts) ==
  [parts |-> parts,
   length |-> Min(SumLengths(parts) + 2 * (Len(parts) - 1),
                  MAX_CONTEXT_LENGTH)]

\* the body of the inner try block once semanticSearch has settled
BuildContext(settled) ==
  IF settled.kind = "throw" \/ Len(settled.results) = 0 THEN EmptyContext
  ELSE JoinContext([k \in 1..Len(settled.results) |->
                      ContextPart(settled.results[k], k - 1)])

\* variant: the response always says that context was used
ContextUsedAlways(ctx) == TRUE

\* !!context
ContextUsed(ctx) == ctx.length > 0

\* the messages handed to openai.chat.completions.create
ChatMessages(req, ctx) ==
  [system |-> [prompt |-> "SYSTEM_PROMPT", withContext |-> ctx.length > 0,
               context |-> ctx],
   conversation |-> req.conversation, user |-> req.message]

\* searchResults ? { count, processingTime, topScore } : null
SearchSummary(found) ==
  IF found = None THEN None
  ELSE [count |-> Len(found.results),
        topScore |-> IF found.results = <<>> THEN 0
                     ELSE OrDefault(found.results[1].score, 0)]

\* completion.choices[0]?.message?.content || 'I apologize, ...'
AiResponse(answer) ==
  IF answer.kind = "content" THEN answer.content ELSE "I apologize"

ChatSuccessResponse(answer, ctx, found) ==
  [kind |-> "http", status |-> 200, success |-> TRUE,
   message |-> AiResponse(answer),
   metadata |-> [contextUsed |-> ContextUsed(ctx),
                 searchResults |-> SearchSummary(found)]]

\* the outer catch block
ChatErrorResponse(answer) ==
  IF answer.kind = "throw_api_key"
  THEN [kind |-> "http", status |-> 500,
        error |-> "OpenAI API configuration error"]
  ELSE [kind |-> "http", status |-> 500, error |-> "Internal server error"]

\* the handler parses the body and starts the context search, or goes
\* straight to the completion call
ChatReceive ==
  /\ UNCHANGED outsideChat
  /\ cPc = "received"
  /\ IF cReq.message = <<>>
     THEN /\ chatReply' = [kind |-> "http", status |-> 400,
                           error |-> "Invalid request parameters"]
          /\ cPc' = "replied"
          /\ UNCHANGED <<cStoreOps, llmCalls>>
     ELSE IF cReq.includeContext
     THEN /\ cStoreOps' =
               Append(cStoreOps,
                      SemanticSearchRequest(cReq.message,
                        [topK |-> SEARCH_RESULTS_COUNT, filter |-> {},
                         category |-> ""]))
          /\ cPc' = "search"
          /\ UNCHANGED <<chatReply, llmCalls>>
     ELSE /\ llmCalls' = Append(llmCalls, ChatMessages(cReq, context))
          /\ cPc' = "llm"
          /\ UNCHANGED <<chatReply, cStoreOps>>
  /\ UNCHANGED <<cReq, cIndex, cSearch, context, searchResults, llmAnswers>>

\* semanticSearch settles: the context is built, or the error is logged, and
\* the completion call is made
ChatSearchSettles ==
  /\ UNCHANGED outsideChat
  /\ cPc = "search"
  /\ \E kind \in StoreAnswerKinds :
       LET settled == SemanticSearchSettles(
                        StoreAnswerOf(kind, cIndex, cStoreOps), cReq.message)
       IN /\ cSearch' = settled
          /\ searchResults' = IF settled.kind = "throw" THEN searchResults
                              ELSE settled
          /\ context' = BuildContext(settled)
          /\ llmCalls' = Append(llmCalls,
                                ChatMessages(cReq, BuildContext(settled)))
  /\ cPc' = "llm"
  /\ UNCHANGED <<cReq, cIndex, cStoreOps, llmAnswers, chatReply>>

\* what the completion call can give
LlmAnswers ==
  {[kind |-> "content", content |-> "answer"], [kind |-> "empty"],
   [kind |-> "throw"], [kind |-> "throw_api_key"]}

\* openai.chat.completions.create settles: the handler answers
ChatCompletionSettles ==
  /\ UNCHANGED outsideChat
  /\ cPc = "llm"
  /\ \E answer \in LlmAnswers :
       /\ llmAnswers' = Append(llmAnswers, answer)
       /\ chatReply' = IF answer.kind \in {"throw", "throw_api_key"}
                       THEN ChatErrorResponse(answer)
                       ELSE ChatSuccessResponse(answer, context, searchResults)
  /\ cPc' = "replied"
  /\ UNCHANGED <<cReq, cIndex, cStoreOps, cSearch, context, searchResults,
                 llmCalls>>

\* nothing but the chat handler is running
OutsideChatIdle ==
  /\ StorageIdle
  /\ ScraperIdle
  /\ SearchIdle
  /\ ValidatorIdle
  /\ ToolsIdle

ChatInit ==
  /\ OutsideChatIdle
  /\ cReq \in [message : {<<>>, UserQuery},
               conversation : 0..MaxConversation,
               includeContext : BOOLEAN]
  /\ cIndex \in SUBSET Docs
  /\ cPc = "received"
  /\ cStoreOps = <<>>
  /\ cSearch = None
  /\ context = EmptyContext
  /\ searchResults = None
  /\ llmCalls = <<>>
  /\ llmAnswers = <<>>
  /\ chatReply = None

ChatNext ==
  \/ ChatReceive
  \/ ChatSearchSettles
  \/ ChatCompletionSettles

ChatSpec == ChatInit /\ [][ChatNext]_vars

(* ------------------- AvenScraper.validateAndCleanFAQs ------------------ *)
\* longest candidate list
MaxFaqs == 2

\* JavaScript values: a tag t and, for strings, the characters s
Undefined == [t |-> "undefined"]

Null == [t |-> "null"]

Num(n) == [t |-> "number", n |-> n]

Str(chars) == [t |-> "string", s |-> chars]

Obj(id, text, category, question) ==
  [t |-> "object", _id |-> id, chunk_text |-> text, category |-> category,
   question |-> question]

\* what reading a property of null or undefined gives
TypeError == [t |-> "TypeError"]

\* typeof v
Typeof(v) == IF v.t = "null" THEN "object" ELSE v.t

\* !v
Falsy(v) ==
  \/ v.t \in {"undefined", "null"}
  \/ v.t = "number" /\ v.n = 0
  \/ v.t = "string" /\ v.s = <<>>

\* v[name]
Get(v, name) ==
  IF v.t \in {"undefined", "null"} THEN TypeError
  ELSE IF v.t = "object" THEN v[name]
  ELSE Undefined

WhiteSpace == {" ", "\n", "\t"}

\* s.trimStart()
RECURSIVE TrimStart(_)
TrimStart(chars) ==
  IF chars # <<>> /\ Head(chars) \in WhiteSpace THEN TrimStart(Tail(chars))
  ELSE chars

\* s.trimEnd()
RECURSIVE TrimEnd(_)
TrimEnd(chars) ==
  IF chars # <<>> /\ chars[Len(chars)] \in WhiteSpace
  THEN TrimEnd(SubSeq(chars, 1, Len(chars) - 1))
  ELSE chars

\* s.trim()
Trim(chars) == TrimEnd(TrimStart(chars))

\* const validCategories
validCategories ==
  { <<"T", "r", "e", "n", "d", "i", "n", "g", " ", "A", "r", "t", "i", "c", "l", "e", "s">>,
    <<"A", "p", "p", "l", "i", "c", "a", "t", "i", "o", "n">>,
    <<"P", "a", "y", "m", "e", "n", "t", "s">>,
    <<"B", "e", "f", "o", "r", "e", " ", "Y", "o", "u", " ", "A", "p", "p", "l", "y">>,
    <<"O", "f", "f", "e", "r", ",", " ", "R", "a", "t", "e", "s", ",", " ", "&", " ", "F", "e", "e", "s">>,
    <<"A", "c", "c", "o", "u", "n", "t">>,
    <<"O", "n", "l", "i", "n", "e", " ", "N", "o", "t", "a", "r", "y">>,
    <<"D", "e", "b", "t", " ", "P", "r", "o", "t", "e", "c", "t", "i", "o", "n">> }

\* String(n) for a natural number
Digit(d) ==
  CASE d = 0 -> "0" [] d = 1 -> "1" [] d = 2 -> "2" [] d = 3 -> "3"
    [] d = 4 -> "4" [] d = 5 -> "5" [] d = 6 -> "6" [] d = 7 -> "7"
    [] d = 8 -> "8" [] d = 9 -> "9"

RECURSIVE NumberToString(_)
NumberToString(n) ==
  IF n < 10 THEN <<Digit(n)>> ELSE Append(NumberToString(n \div 10), Digit(n % 10))

\* `aven_faq_${index + 1}`
GeneratedId(index) == <<"a", "v", "e", "n", "_", "f", "a", "q", "_">> \o NumberToString(index + 1)

\* the string rule of the filter: !v || typeof v !== 'string' ||
\* v.trim().length === 0
BadString(v) ==
  \/ Falsy(v)
  \/ Typeof(v) # "string"
  \/ Len(Trim(v.s)) = 0

\* variant: the question is not looked at
FilterFaqNoQuestion(faq) ==
  IF Falsy(faq) \/ Typeof(faq) # "object" THEN "drop"
  ELSE IF Get(faq, "chunk_text") = TypeError THEN "throw"
  ELSE IF BadString(Get(faq, "chunk_text")) THEN "drop"
  ELSE IF Falsy(Get(faq, "category"))
            \/ Get(faq, "category") \notin {Str(c) : c \in validCategories}
  THEN "drop"
  ELSE "keep"

\* the callback of faqs.filter
FilterFaq(faq) ==
  IF Falsy(faq) \/ Typeof(faq) # "object" THEN "drop"
  ELSE IF Get(faq, "chunk_text") = TypeError THEN "throw"
  ELSE IF BadString(Get(faq, "chunk_text")) THEN "drop"
  ELSE IF Falsy(Get(faq, "category"))
            \/ Get(faq, "category") \notin {Str(c) : c \in validCategories}
  THEN "drop"
  ELSE IF BadString(Get(faq, "question")) THEN "drop"
  ELSE "keep"

\* the callback of .map: index is the position in the filtered list
MapFaq(faq, index) ==
  IF Get(faq, "chunk_text").t # "string" THEN TypeError
  ELSE [_id |-> IF ~Falsy(Get(faq, "_id")) /\ Typeof(Get(faq, "_id")) = "string"
                THEN Get(faq, "_id")
                ELSE Str(GeneratedId(index)),
        chunk_text |-> Str(Trim(Get(faq, "chunk_text").s)),
        category |-> Get(faq, "category"),
        question |-> Get(faq, "question")]

\* positions of the candidates the filter keeps
Kept(list) == {k \in 1..Len(list) : FilterFaq(list[k]) = "keep"}

\* the k-th smallest element of a set of positions
RECURSIVE NthPosition(_, _)
NthPosition(S, k) ==
  LET least == CHOOSE x \in S : \A y \in S : x <= y
  IN IF k = 1 THEN least ELSE NthPosition(S \ {least}, k - 1)

validateAndCleanFAQs(list) ==
  IF \E k \in 1..Len(list) : FilterFaq(list[k]) = "throw"
  THEN [kind |-> "throw"]
  ELSE LET mapped == [k \in 1..Cardinality(Kept(list)) |->
                        MapFaq(list[NthPosition(Kept(list), k)], k - 1)]
       IN IF \E k \in 1..Len(mapped) : mapped[k] = TypeError
          THEN [kind |-> "throw"]
          ELSE [kind |-> "return", value |-> mapped,
                from |-> [k \in 1..Len(mapped) |-> NthPosition(Kept(list), k)]]

\* a well-formed candidate with the given _id and chunk_text
GoodFaq(id, text) == Obj(id, text, Str(<<"P", "a", "y", "m", "e", "n", "t", "s">>), Str(<<"H", "o", "w", "?", " ">>))

\* the candidates a list is drawn from: well-formed ones that differ in
\* their _id and chunk_text, and ones with a single fault
Candidates ==
  {GoodFaq(id, Str(<<" ", "a", "\n">>)) :
     id \in {Undefined, Str(<<"a", "v", "e", "n", "_", "f", "a", "q", "_", "1">>), Str(<<"a", "v", "e", "n", "_", "f", "a", "q", "_", "2">>), Str(<<>>), Num(7)}}
  \cup {GoodFaq(Str(<<"a", "v", "e", "n", "_", "f", "a", "q", "_", "1">>), Str(<<"A">>))}
  \cup {Null, Undefined, Num(0), Num(3), Str(<<"A">>)}
  \cup {Obj(Str(<<"a", "v", "e", "n", "_", "f", "a", "q", "_", "2">>), text, Str(<<"P", "a", "y", "m", "e", "n", "t", "s">>), Str(<<"H", "o", "w", "?", " ">>)) :
          text \in {Undefined, Num(5), Str(<<>>), Str(<<" ", "\t">>)}}
  \cup {Obj(Str(<<"a", "v", "e", "n", "_", "f", "a", "q", "_", "2">>), Str(<<"A">>), category, Str(<<"H", "o", "w", "?", " ">>)) :
          category \in {Undefined, Num(1), Str(<<>>), Str(<<"G", "e", "n", "e", "r", "a", "l">>),
                        Str(<<"A", "c", "c", "o", "u", "n", "t">>)}}
  \cup {Obj(Str(<<"a", "v", "e", "n", "_", "f", "a", "q", "_", "2">>), Str(<<"A">>), Str(<<"P", "a", "y", "m", "e", "n", "t", "s">>), question) :
          question \in {Undefined, Num(2), Str(<<>>), Str(<<" ", "\t">>)}}

\* nothing but the validator is running
OutsideValidatorIdle ==
  /\ StorageIdle
  /\ ScraperIdle
  /\ SearchIdle
  /\ ChatIdle
  /\ ToolsIdle

\* the call runs to its end
Validate ==
  /\ UNCHANGED outsideValidator
  /\ vPc = "called"
  /\ cleaned' = validateAndCleanFAQs(faqs)
  /\ vPc' = "done"
  /\ faqs' = faqs

ValidatorInit ==
  /\ OutsideValidatorIdle
  /\ faqs \in UNION {[1..n -> Candidates] : n \in 0..MaxFaqs}
  /\ vPc = "called"
  /\ cleaned = None

ValidatorNext ==
  \/ Validate

ValidatorSpec == ValidatorInit /\ [][ValidatorNext]_vars

(* ------------------ AvenScraper.processRawTextContent ------------------ *)
\* longest page text tried, in lines
MaxLines == 3

UpperCase == <<"A", "B", "C", "D", "E", "F", "G", "H", "I", "J", "K", "L", "M", "N", "O", "P", "Q", "R", "S", "T", "U", "V", "W", "X", "Y", "Z">>

LowerCase == <<"a", "b", "c", "d", "e", "f", "g", "h", "i", "j", "k", "l", "m", "n", "o", "p", "q", "r", "s", "t", "u", "v", "w", "x", "y", "z">>

\* the i flag of a regular expression: letters compare without case
FoldCase(ch) ==
  IF \E k \in 1..26 : UpperCase[k] = ch
  THEN LowerCase[CHOOSE k \in 1..26 : UpperCase[k] = ch]
  ELSE ch

MinOf(S) == CHOOSE x \in S : \A y \in S : x <= y

\* str has sub at position p (positions count from 1)
StartsAt(str, sub, p) ==
  /\ p >= 1
  /\ p + Len(sub) - 1 <= Len(str)
  /\ \A k \in 1..Len(sub) : str[p + k - 1] = sub[k]

StartsAtFold(str, sub, p) ==
  /\ p >= 1
  /\ p + Len(sub) - 1 <= Len(str)
  /\ \A k \in 1..Len(sub) : FoldCase(str[p + k - 1]) = FoldCase(sub[k])

\* first position from `from` on where sub occurs in str, 0 if there is none
IndexFrom(str, sub, from) ==
  LET ps == {p \in from..Len(str) : StartsAt(str, sub, p)}
  IN IF ps = {} THEN 0 ELSE MinOf(ps)

IndexFromFold(str, sub, from) ==
  LET ps == {p \in from..Len(str) : StartsAtFold(str, sub, p)}
  IN IF ps = {} THEN 0 ELSE MinOf(ps)

\* str.substring(p - 1): the characters from position p on
From(str, p) == SubSeq(str, p, Len(str))

\* position of the first newline from p on, Len(str) + 1 if there is none
LineEnd(str, p) ==
  LET ps == {q \in p..Len(str) : str[q] = "\n"}
  IN IF ps = {} THEN Len(str) + 1 ELSE MinOf(ps)

\* position of the first character from p on that is no white space,
\* Len(str) + 1 if there is none
SpaceEnd(str, p) ==
  LET ps == {q \in p..Len(str) : str[q] \notin WhiteSpace}
  IN IF ps = {} THEN Len(str) + 1 ELSE MinOf(ps)

HelpMarker == <<"#", "#", " ", "H", "o", "w", " ", "c", "a", "n", " ", "w", "e", " ", "h", "e", "l", "p", "?">>

\* text.split(/## How can we help\?/i)[1] ?? ''
MainContent(text) ==
  LET first == IndexFromFold(text, HelpMarker, 1)
      start == first + Len(HelpMarker)
      next == IndexFromFold(text, HelpMarker, start)
  IN IF first = 0 THEN <<>>
     ELSE IF next = 0 THEN From(text, start)
     ELSE SubSeq(text, start, next - 1)

\* str.replace(/SHOW MORE/g, '')
RECURSIVE RemoveShowMore(_)
RemoveShowMore(str) ==
  LET sub == <<"S", "H", "O", "W", " ", "M", "O", "R", "E">>
      p == IndexFrom(str, sub, 1)
  IN IF p = 0 THEN str
     ELSE SubSeq(str, 1, p - 1) \o RemoveShowMore(From(str, p + Len(sub)))

\* last position of a match of /!\[.*?\]\(.*?\)/ that starts at p, 0 if
\* there is none: the closing "](" and ")" on the line of the "!["
ImageEnd(str, p) ==
  IF ~StartsAt(str, <<"!", "[">>, p) THEN 0
  ELSE LET eol == LineEnd(str, p + 2)
           q == IndexFrom(str, <<"]", "(">>, p + 2)
           r == IF q = 0 THEN 0 ELSE IndexFrom(str, <<")">>, q + 2)
       IN IF q = 0 \/ q > eol \/ r = 0 \/ r > eol THEN 0 ELSE r

\* str.replace(/!\[.*?\]\(.*?\)/g, '')
RECURSIVE RemoveImages(_)
RemoveImages(str) ==
  LET ps == {p \in 1..Len(str) : ImageEnd(str, p) # 0}
  IN IF ps = {} THEN str
     ELSE LET p == MinOf(ps)
          IN SubSeq(str, 1, p - 1) \o RemoveImages(From(str, ImageEnd(str, p) + 1))

\* str.replace(/\[iframe\].*?(\n|$)/g, ''): the rest of the line goes, its
\* newline included
RECURSIVE RemoveIframes(_)
RemoveIframes(str) ==
  LET sub == <<"[", "i", "f", "r", "a", "m", "e", "]">>
      p == IndexFrom(str, sub, 1)
  IN IF p = 0 THEN str
     ELSE SubSeq(str, 1, p - 1)
          \o RemoveIframes(From(str, LineEnd(str, p + Len(sub)) + 1))

\* const cleanText
CleanText(mainContent) == RemoveIframes(RemoveImages(RemoveShowMore(mainContent)))

\* const categoryMappings: the keys written in the literal
OwnMappings ==
  { <<<<"T", "r", "e", "n", "d", "i", "n", "g", " ", "A", "r", "t", "i", "c", "l", "e", "s">>, <<"T", "r", "e", "n", "d", "i", "n", "g", " ", "A", "r", "t", "i", "c", "l", "e", "s">>>>,
    <<<<"P", "a", "y", "m", "e", "n", "t", "s">>, <<"P", "a", "y", "m", "e", "n", "t", "s">>>>,
    <<<<"B", "e", "f", "o", "r", "e", " ", "Y", "o", "u", " ", "A", "p", "p", "l", "y">>, <<"B", "e", "f", "o", "r", "e", " ", "Y", "o", "u", " ", "A", "p", "p", "l", "y">>>>,
    <<<<"O", "f", "f", "e", "r", ",", " ", "R", "a", "t", "e", "s", " ", "&", " ", "F", "e", "e", "s">>, <<"O", "f", "f", "e", "r", ",", " ", "R", "a", "t", "e", "s", ",", " ", "&", " ", "F", "e", "e", "s">>>>,
    <<<<"A", "p", "p", "l", "i", "c", "a", "t", "i", "o", "n">>, <<"A", "p", "p", "l", "i", "c", "a", "t", "i", "o", "n">>>>,
    <<<<"A", "c", "c", "o", "u", "n", "t">>, <<"A", "c", "c", "o", "u", "n", "t">>>>,
    <<<<"O", "n", "l", "i", "n", "e", " ", "N", "o", "t", "a", "r", "y">>, <<"O", "n", "l", "i", "n", "e", " ", "N", "o", "t", "a", "r", "y">>>>,
    <<<<"D", "e", "b", "t", " ", "P", "r", "o", "t", "e", "c", "t", "i", "o", "n">>, <<"D", "e", "b", "t", " ", "P", "r", "o", "t", "e", "c", "t", "i", "o", "n">>>> }

\* the names every object literal inherits from Object.prototype
InheritedKeys ==
  { <<"c", "o", "n", "s", "t", "r", "u", "c", "t", "o", "r">>, <<"t", "o", "S", "t", "r", "i", "n", "g">>, <<"v", "a", "l", "u", "e", "O", "f">>, <<"h", "a", "s", "O", "w", "n", "P", "r", "o", "p", "e", "r", "t", "y">>,
    <<"i", "s", "P", "r", "o", "t", "o", "t", "y", "p", "e", "O", "f">>, <<"p", "r", "o", "p", "e", "r", "t", "y", "I", "s", "E", "n", "u", "m", "e", "r", "a", "b", "l", "e">>, <<"t", "o", "L", "o", "c", "a", "l", "e", "S", "t", "r", "i", "n", "g">>,
    <<"_", "_", "p", "r", "o", "t", "o", "_", "_">> }

\* categoryMappings[categoryName]
CategoryMapping(categoryName) ==
  IF \E m \in OwnMappings : m[1] = categoryName
  THEN Str((CHOOSE m \in OwnMappings : m[1] = categoryName)[2])
  ELSE IF categoryName = <<"_", "_", "p", "r", "o", "t", "o", "_", "_">> THEN [t |-> "object"]
  ELSE IF categoryName \in InheritedKeys THEN [t |-> "function"]
  ELSE Undefined

\* a match of /#####[\s\S]*?(.*?)\n/ starts at p: five hashes and a newline
\* somewhere behind them; the group is the rest of the line of the hashes
HeadingAt(str, p) ==
  /\ StartsAt(str, <<"#", "#", "#", "#", "#">>, p)
  /\ LineEnd(str, p + 5) <= Len(str)

\* cleanText.split(/#####[\s\S]*?(.*?)\n/): text, group, text, group, ...
RECURSIVE Sections(_)
Sections(str) ==
  LET ps == {p \in 1..Len(str) : HeadingAt(str, p)}
  IN IF ps = {} THEN <<str>>
     ELSE LET p == MinOf(ps)
              eol == LineEnd(str, p + 5)
          IN <<SubSeq(str, 1, p - 1), SubSeq(str, p + 5, eol - 1)>>
             \o Sections(From(str, eol + 1))

\* the lookahead (?=-\s+[^\n]+\?) holds at p: a dash, white space, at least
\* one character and a question mark behind it on the same line
QuestionAhead(str, p) ==
  /\ p <= Len(str)
  /\ str[p] = "-"
  /\ \E t \in (p + 2)..Len(str) :
       /\ \A j \in (p + 1)..(t - 1) : str[j] \in WhiteSpace
       /\ \E u \in (t + 1)..Len(str) :
            /\ str[u] = "?"
            /\ \A j \in t..(u - 1) : str[j] # "\n"

\* a match of /\n\s*(?=-\s+[^\n]+\?)/ starts at p
PairBreakAt(str, p) ==
  /\ str[p] = "\n"
  /\ QuestionAhead(str, SpaceEnd(str, p + 1))

\* str.split(/\n\s*(?=-\s+[^\n]+\?)/g)
RECURSIVE SplitPairs(_)
SplitPairs(str) ==
  LET ps == {p \in 1..Len(str) : PairBreakAt(str, p)}
  IN IF ps = {} THEN <<str>>
     ELSE LET p == MinOf(ps)
          IN <<SubSeq(str, 1, p - 1)>> \o SplitPairs(From(str, SpaceEnd(str, p + 1)))

\* str.replace(/-\s*/, ''): the first dash and the white space behind it
RemoveFirstDash(str) ==
  LET p == IndexFrom(str, <<"-">>, 1)
  IN IF p = 0 THEN str
     ELSE SubSeq(str, 1, p - 1) \o From(str, SpaceEnd(str, p + 1))

\* last position of a match of /\[([^\]]*)\]\([^)]*\)/ that starts at p, 0
\* if there is none
LinkEnd(str, p) ==
  IF ~StartsAt(str, <<"[">>, p) THEN 0
  ELSE LET b == IndexFrom(str, <<"]">>, p + 1)
       IN IF b = 0 \/ ~StartsAt(str, <<"(">>, b + 1) THEN 0
          ELSE IndexFrom(str, <<")">>, b + 2)

\* str.replace(/\[([^\]]*)\]\([^)]*\)/g, '$1'): a link becomes its label
RECURSIVE UnwrapLinks(_)
UnwrapLinks(str) ==
  LET ps == {p \in 1..Len(str) : LinkEnd(str, p) # 0}
  IN IF ps = {} THEN str
     ELSE LET p == MinOf(ps)
              b == IndexFrom(str, <<"]">>, p + 1)
          IN SubSeq(str, 1, p - 1) \o SubSeq(str, p + 1, b - 1)
             \o UnwrapLinks(From(str, LinkEnd(str, p) + 1))

\* str.replace(/\s+/g, ' ')
RECURSIVE CollapseSpace(_)
CollapseSpace(str) ==
  IF str = <<>> THEN <<>>
  ELSE IF Head(str) \in WhiteSpace
       THEN <<" ">> \o CollapseSpace(From(str, SpaceEnd(str, 1)))
       ELSE <<Head(str)>> \o CollapseSpace(Tail(str))

\* const question, for a pair that holds a question mark
QuestionOf(pair) ==
  Trim(RemoveFirstDash(SubSeq(pair, 1, IndexFrom(pair, <<"?">>, 1))))

\* let answer, after its clean-up
AnswerOf(pair) ==
  Trim(CollapseSpace(UnwrapLinks(Trim(From(pair, IndexFrom(pair, <<"?">>, 1) + 1)))))

\* the pair passes `if (!pair.includes('?')) continue` and the length test
PairKept(pair) ==
  /\ IndexFrom(pair, <<"?">>, 1) # 0
  /\ Len(QuestionOf(pair)) > 5
  /\ Len(AnswerOf(pair)) > 5

\* the object pushed for a pair, faqCounter being the counter before the push
ExtractedFaq(pair, mappedCategory, faqCounter) ==
  [_id |-> <<"a", "v", "e", "n", "_", "f", "a", "q", "_">> \o NumberToString(faqCounter),
   chunk_text |-> <<"Q", "u", "e", "s", "t", "i", "o", "n", ":", " ">> \o QuestionOf(pair) \o <<"\n", "\n", "A", "n", "s", "w", "e", "r", ":", " ">> \o AnswerOf(pair),
   category |-> mappedCategory,
   question |-> QuestionOf(pair)]

\* the inner loop over qaPairs from pair k on, acc being faqs so far
RECURSIVE PairLoop(_, _, _, _)
PairLoop(qaPairs, k, mappedCategory, acc) ==
  IF k > Len(qaPairs) THEN acc
  ELSE IF PairKept(qaPairs[k])
       THEN PairLoop(qaPairs, k + 1, mappedCategory,
                     Append(acc, ExtractedFaq(qaPairs[k], mappedCategory, Len(acc) + 1)))
       ELSE PairLoop(qaPairs, k + 1, mappedCategory, acc)

\* the outer loop `for (let i = 1; i < sections.length; i += 2)`; position
\* k here is index k - 1 of the array; faqCounter is always faqs.length + 1
RECURSIVE SectionLoop(_, _, _)
SectionLoop(sections, k, acc) ==
  IF k > Len(sections) THEN acc
  ELSE LET categoryName == Trim(sections[k])
           sectionContent == IF k + 1 <= Len(sections) THEN sections[k + 1] ELSE <<>>
           mappedCategory == CategoryMapping(categoryName)
       IN IF Falsy(mappedCategory) THEN SectionLoop(sections, k + 2, acc)
          ELSE SectionLoop(sections, k + 2,
                 PairLoop(SplitPairs(Trim(sectionContent)), 1, mappedCategory, acc))

processRawTextContent(text) ==
  SectionLoop(Sections(CleanText(MainContent(text))), 2, <<>>)

\* the lines page texts are put together from
PageLines ==
  { <<"#", "#", " ", "h", "o", "w", " ", "c", "a", "n", " ", "w", "e", " ", "h", "e", "l", "p", "?">>,
    <<"#", "#", "#", "#", "#", " ", "P", "a", "y", "m", "e", "n", "t", "s">>,
    <<"#", "#", "#", "#", "#", " ", "c", "o", "n", "s", "t", "r", "u", "c", "t", "o", "r">>,
    <<"#", "#", "#", "#", "#", " ", "P", "r", "i", "c", "i", "n", "g">>,
    <<"-", " ", "H", "o", "w", " ", "d", "o", " ", "I", " ", "p", "a", "y", "?", " ", "U", "s", "e", " ", "t", "h", "e", " ", "[", "a", "p", "p", "]", "(", "a", ".", "i", "o", ")", ".", " ", "S", "H", "O", "W", " ", "M", "O", "R", "E">>,
    <<"-", " ", "W", "h", "y", "?", " ", "N", "o", ".">> }

\* lines.join('\n') + '\n'
RECURSIVE JoinLines(_)
JoinLines(lines) ==
  IF lines = <<>> THEN <<>>
  ELSE Head(lines) \o <<"\n">> \o JoinLines(Tail(lines))

\* nothing but the text extractor is running
OutsideExtractorIdle ==
  /\ StorageIdle
  /\ ScraperIdle
  /\ SearchIdle
  /\ ChatIdle
  /\ ValidatorIdle
  /\ ConverterIdle
  /\ CountIdle
  /\ RetryIdle
  /\ EmbeddingsIdle

\* the call returns faqs
Extract ==
  /\ UNCHANGED outsideExtractor
  /\ xPc = "called"
  /\ extractedFaqs' = processRawTextContent(rawText)
  /\ xPc' = "done"
  /\ rawText' = rawText

ExtractorInit ==
  /\ OutsideExtractorIdle
  /\ rawText \in {JoinLines(lines) : lines \in UNION {[1..n -> PageLines] : n \in 0..MaxLines}}
  /\ xPc = "called"
  /\ extractedFaqs = None

ExtractorNext ==
  \/ Extract

ExtractorSpec == ExtractorInit /\ [][ExtractorNext]_vars

(* ------------------------ extractor properties ------------------------- *)
\* the text holds the introductory heading marker
HasHelpMarker(text) == IndexFromFold(text, HelpMarker, 1) # 0

\* the headings of the text: the groups of the section split, trimmed
Headings(text) ==
  LET sections == Sections(CleanText(MainContent(text)))
  IN {Trim(sections[k]) : k \in {j \in 1..Len(sections) : j % 2 = 0}}

\* the heading is one of the eight category names of the mapping
MapsToCategory(heading) == \E m \in OwnMappings : m[1] = heading

\* C21: for a raw text without the introductory heading marker, or with no
\* heading that maps to one of the eight categories, processRawTextContent
\* returns the empty list (and does not throw).
C21_NothingToExtract ==
  (/\ xPc = "done"
   /\ \/ ~HasHelpMarker(rawText)
      \/ \A h \in Headings(rawText) : ~MapsToCategory(h))
    => extractedFaqs = <<>>

(* --------------- PineconeStorage.convertFaqsToUpsertRecords ------------ *)
\* an entry of the data file's faqs list (interface FAQRecord)
FaqRecord(id, text, timestamp) ==
  [_id |-> Str(id), chunk_text |-> Str(text), category |-> Str(<<"P", "a", "y", "m", "e", "n", "t", "s">>),
   question |-> Str(<<"H", "o", "w", " ", "d", "o", " ", "I", " ", "p", "a", "y", "?">>), source |-> Undefined,
   timestamp |-> timestamp]

\* the FAQ records the lists are put together from; the ids are the ones the
\* extractor and the validator hand out
FaqRecords ==
  { FaqRecord(id, text, timestamp) :
      id \in {GeneratedId(0), GeneratedId(1)},
      text \in {<<"Q", "u", "e", "s", "t", "i", "o", "n", ":", " ", "H", "o", "w", " ", "d", "o", " ", "I", " ", "p", "a", "y", "?">>, <<"Q", "u", "e", "s", "t", "i", "o", "n", ":", " ", "W", "h", "y", "?">>},
      timestamp \in {Undefined, Str(<<"2", "0", "2", "5", "-", "0", "7", "-", "0", "1", "T", "1", "0", ":", "0", "0", ":", "0", "0", ".", "0", "0", "0", "Z">>)} }

\* the values new Date().toISOString() can give
NowStrings == {Str(<<"2", "0", "2", "5", "-", "0", "7", "-", "0", "2", "T", "0", "8", ":", "3", "0", ":", "0", "0", ".", "0", "0", "0", "Z">>)}

\* the object the map callback returns for faq
ToUpsertRecord(faq, now) ==
  [id |-> faq._id,
   chunk_text |-> faq.chunk_text,
   category |-> faq.category,
   question |-> faq.question,
   source |-> faq.source,
   timestamp |-> IF Falsy(faq.timestamp) THEN now ELSE faq.timestamp,
   original_text |-> faq.chunk_text]

\* faqs.map(faq => ...)
convertFaqsToUpsertRecords(list, now) ==
  [k \in 1..Len(list) |-> ToUpsertRecord(list[k], now)]

\* nothing but the record converter is running
OutsideConverterIdle ==
  /\ StorageIdle
  /\ ScraperIdle
  /\ SearchIdle
  /\ ChatIdle
  /\ ValidatorIdle
  /\ ExtractorIdle
  /\ CountIdle
  /\ RetryIdle
  /\ EmbeddingsIdle

\* the call returns the mapped list
Convert ==
  /\ UNCHANGED outsideConverter
  /\ cvPc = "called"
  /\ cvRecords' = convertFaqsToUpsertRecords(cvFaqs, cvNow)
  /\ cvPc' = "done"
  /\ UNCHANGED <<cvFaqs, cvNow>>

ConverterInit ==
  /\ OutsideConverterIdle
  /\ cvFaqs \in UNION {[1..n -> FaqRecords] : n \in 0..MaxFaqs}
  /\ cvNow \in NowStrings
  /\ cvPc = "called"
  /\ cvRecords = None

ConverterNext ==
  \/ Convert

ConverterSpec == ConverterInit /\ [][ConverterNext]_vars

SampleQuery == <<"s", "a", "m", "p", "l", "e", " ", "q", "u", "e", "r", "y">>

\* the category values of Docs in the order Array.prototype.sort() puts
\* strings (by code unit)
SortedCategories == <<"Account", "Payments", "Rewards">>

\* Array.from(categories).sort()
SortStrings(S) ==
  LET Member(c) == c \in S
  IN SelectSeq(SortedCategories, Member)

\* the store request of getCategories: semanticSearch(indexName,
\* 'sample query', { topK: 100, namespace })
GetCategoriesRequest ==
  SemanticSearchRequest(SampleQuery, [topK |-> 100, filter |-> {}, category |-> ""])

\* what getCategories returns once its semanticSearch has settled
GetCategoriesSettles(settled) ==
  IF settled.kind = "throw" THEN <<>>
  ELSE SortStrings({settled.results[k].metadata.category :
                      k \in {j \in 1..Len(settled.results) :
                               settled.results[j].metadata.category # ""}})

\* getRecordsByCategory(indexName, category, { namespace }): categorySearch
\* with query '' and { ...config, category, topK: config.topK || 100 }
RecordsByCategoryCall(category) ==
  [fn |-> "categorySearch", query |-> <<>>,
   config |-> [topK |-> OrDefault(0, 100), filter |-> {}, category |-> category],
   categories |-> {}, documentId |-> ""]

\* const counts: Record<string, number> = {}
EmptyCounts == <<>>

\* variant: the catch block returns the counts gathered so far
CountByCategoryCatchPartial(counts) == counts

\* catch (error) { return {} }
CountByCategoryCatch(counts) == EmptyCounts

\* nothing but the category count is running
OutsideCountIdle ==
  /\ StorageIdle
  /\ ScraperIdle
  /\ SearchIdle
  /\ ChatIdle
  /\ ValidatorIdle
  /\ ExtractorIdle
  /\ ConverterIdle
  /\ RetryIdle
  /\ EmbeddingsIdle

\* countByCategory calls getCategories, which issues the sampling query
CountSample ==
  /\ UNCHANGED outsideCount
  /\ kPc = "called"
  /\ kStoreOps' = Append(kStoreOps, GetCategoriesRequest)
  /\ kPc' = "sample"
  /\ UNCHANGED <<kIndex, kCategories, kNext, kCounts, kStoreAnswers, kReply>>

\* the sampling query settles: getCategories returns the sorted categories,
\* or [] from its catch block
CountSampleSettles ==
  /\ UNCHANGED outsideCount
  /\ kPc = "sample"
  /\ \E kind \in StoreAnswerKinds :
       LET answer == StoreAnswerOf(kind, kIndex, kStoreOps)
       IN /\ kStoreAnswers' = Append(kStoreAnswers, answer)
          /\ kCategories' =
               GetCategoriesSettles(SemanticSearchSettles(answer, SampleQuery))
  /\ kNext' = 1
  /\ kPc' = "loop"
  /\ UNCHANGED <<kIndex, kCounts, kStoreOps, kReply>>

\* the loop takes the next category and issues its filtered query
CountCategory ==
  /\ UNCHANGED outsideCount
  /\ kPc = "loop"
  /\ kNext <= Len(kCategories)
  /\ kStoreOps' = kStoreOps \o StoreOps(RecordsByCategoryCall(kCategories[kNext]))
  /\ kPc' = "category"
  /\ UNCHANGED <<kIndex, kCategories, kNext, kCounts, kStoreAnswers, kReply>>

\* the filtered query settles: counts[category] = results.totalResults, or
\* the catch block of countByCategory returns
CountCategorySettles ==
  /\ UNCHANGED outsideCount
  /\ kPc = "category"
  /\ \E kind \in StoreAnswerKinds :
       LET answer == StoreAnswerOf(kind, kIndex, kStoreOps)
           settled == SemanticSearchSettles(answer, <<>>)
       IN /\ kStoreAnswers' = Append(kStoreAnswers, answer)
          /\ IF settled.kind = "throw"
             THEN /\ kReply' = [kind |-> "return",
                                counts |-> CountByCategoryCatch(kCounts)]
                  /\ kPc' = "done"
                  /\ UNCHANGED <<kCounts, kNext>>
             ELSE /\ kCounts' = (kCategories[kNext] :> settled.totalResults) @@ kCounts
                  /\ kNext' = kNext + 1
                  /\ kPc' = "loop"
                  /\ kReply' = kReply
  /\ UNCHANGED <<kIndex, kCategories, kStoreOps>>

\* the loop is over: return counts
CountReturn ==
  /\ UNCHANGED outsideCount
  /\ kPc = "loop"
  /\ kNext > Len(kCategories)
  /\ kReply' = [kind |-> "return", counts |-> kCounts]
  /\ kPc' = "done"
  /\ UNCHANGED <<kIndex, kCategories, kNext, kCounts, kStoreOps, kStoreAnswers>>

CountInit ==
  /\ OutsideCountIdle
  /\ kIndex \in SUBSET Docs
  /\ kPc = "called"
  /\ kCategories = None
  /\ kNext = 0
  /\ kCounts = EmptyCounts
  /\ kStoreOps = <<>>
  /\ kStoreAnswers = <<>>
  /\ kReply = None

CountNext ==
  \/ CountSample
  \/ CountSampleSettles
  \/ CountCategory
  \/ CountCategorySettles
  \/ CountReturn

CountSpec == CountInit /\ [][CountNext]_vars

(* -------------------------- count properties --------------------------- *)
\* number of hits of a store answer
HitCount(answer) == IF answer.kind = "hits" THEN Len(answer.hits) ELSE 0

\* the distinct category values in the hits of a store answer
SeenCategories(answer) ==
  IF answer.kind = "hits"
  THEN {answer.hits[k].fields.category : k \in 1..Len(answer.hits)}
  ELSE {}

\* the sampling query goes first and the queries are issued one at a time
QueriesInTurn ==
  /\ Len(kStoreOps) <= Len(kStoreAnswers) + 1
  /\ kStoreOps # <<>> => kStoreOps[1] = GetCategoriesRequest
  /\ \A k \in 2..Len(kStoreOps) :
       \E c \in Range(kCategories) : kStoreOps[k].filter = {Eq("category", c)}

\* the returned map has one key per category of the sampling query, its
\* value the hit count of the one filtered search for that key
CountsComplete ==
  /\ DOMAIN kReply.counts = Range(kCategories)
  /\ Range(kCategories) = SeenCategories(kStoreAnswers[1])
  /\ \A c \in DOMAIN kReply.counts :
       LET qs == {k \in 2..Len(kStoreOps) : kStoreOps[k].filter = {Eq("category", c)}}
       IN /\ Cardinality(qs) = 1
          /\ \A k \in qs :
               /\ kStoreOps[k].topN = 100
               /\ kReply.counts[c] = HitCount(kStoreAnswers[k])
               /\ kReply.counts[c] <= 100

\* some filtered query of the run failed
CategoryQueryFailed ==
  \E k \in 2..Len(kStoreAnswers) : kStoreAnswers[k].kind = "throw"

\* C23 as stated: countByCategory returns a map whose keys are the distinct
\* categories seen in the hits of the one sampling query, each value the hit
\* count of one category-filtered search for that key and never above 100;
\* the sampling query is issued first, the filtered queries one at a time.
C23_CountsPerCategory ==
  /\ QueriesInTurn
  /\ kPc = "done" => CountsComplete

\* C23, amended: as above when no filtered query fails; when one fails, the
\* call returns the empty map and issues no further query.
C23_CountsUnlessQueryFails ==
  /\ QueriesInTurn
  /\ kPc = "done" =>
       IF CategoryQueryFailed
       THEN /\ kReply.counts = EmptyCounts
            /\ kStoreAnswers[Len(kStoreAnswers)].kind = "throw"
            /\ \A k \in 2..(Len(kStoreAnswers) - 1) : kStoreAnswers[k].kind # "throw"
       ELSE CountsComplete

\* a count over two categories came back, one of them with two records
C23_Witness ==
  /\ kPc = "done"
  /\ Cardinality(DOMAIN kReply.counts) >= 2
  /\ \E c \in DOMAIN kReply.counts : kReply.counts[c] = 2

(* --------------------------- retryWithBackoff -------------------------- *)
\* baseDelay = 1000
DefaultBaseDelay == 1000

\* maxDelay = 10000
DefaultMaxDelay == 10000

\* factor = 2
DefaultFactor == 2

\* Math.pow(b, e) for a natural number e
RECURSIVE Pow(_, _)
Pow(b, e) == IF e <= 0 THEN 1 ELSE b * Pow(b, e - 1)

\* const nonRetryableErrors
nonRetryableErrors == {"VALIDATION_ERROR", "AUTH_ERROR", "CONFIGURATION_ERROR"}

\* variant: every error is worth a retry
shouldRetryAlways(error) == TRUE

\* shouldRetry(error)
shouldRetry(error) == error.errorCode \notin nonRetryableErrors

\* what fn can throw: an AppError with its errorCode, or some other Error
ThrownErrors ==
  [appError : {TRUE},
   errorCode : nonRetryableErrors \cup {"RATE_LIMIT_ERROR", "EXTERNAL_API_ERROR"}]
  \cup {[appError |-> FALSE, errorCode |-> ""]}

\* the options callers pass: maxRetries, and baseDelay or its default
RetryOptions == [maxRetries : 0..MaxRetries, baseDelay : {DefaultBaseDelay, 4000}]

\* const delay = Math.min(baseDelay * Math.pow(factor, attempt), maxDelay),
\* tries being the value of attempt
RetryDelay(options, tries) ==
  Min(options.baseDelay * Pow(DefaultFactor, tries), DefaultMaxDelay)

\* nothing but retryWithBackoff is running
OutsideRetryIdle ==
  /\ StorageIdle
  /\ ScraperIdle
  /\ SearchIdle
  /\ ChatIdle
  /\ ValidatorIdle
  /\ ExtractorIdle
  /\ ConverterIdle
  /\ CountIdle
  /\ EmbeddingsIdle

\* loop test true: fn() is called and awaited
RetryCall ==
  /\ UNCHANGED outsideRetry
  /\ rbPc = "loop"
  /\ rbAttempt <= rbOptions.maxRetries
  /\ rbLog' = Append(rbLog, [kind |-> "pending"])
  /\ rbPc' = "await"
  /\ UNCHANGED <<rbOptions, rbAttempt, rbLastError, rbDelays, rbOutcome>>

\* fn() resolves: return its value
RetrySuccess ==
  /\ UNCHANGED outsideRetry
  /\ rbPc = "await"
  /\ rbLog' = [rbLog EXCEPT ![Len(rbLog)] = [kind |-> "value"]]
  /\ rbOutcome' = [kind |-> "return", call |-> Len(rbLog)]
  /\ rbPc' = "done"
  /\ UNCHANGED <<rbOptions, rbAttempt, rbLastError, rbDelays>>

\* fn() rejects: the catch block breaks out and throws lastError, throws the
\* error at once, or starts the backoff timer
RetryFailure ==
  /\ UNCHANGED outsideRetry
  /\ rbPc = "await"
  /\ \E e \in ThrownErrors :
       LET error == [kind |-> "error", appError |-> e.appError,
                     errorCode |-> e.errorCode, call |-> Len(rbLog)]
       IN /\ rbLog' = [rbLog EXCEPT ![Len(rbLog)] = error]
          /\ rbLastError' = error
          /\ IF rbAttempt = rbOptions.maxRetries
             THEN /\ rbOutcome' = [kind |-> "throw", error |-> error]
                  /\ rbPc' = "done"
                  /\ rbDelays' = rbDelays
             ELSE IF error.appError /\ ~shouldRetry(error)
             THEN /\ rbOutcome' = [kind |-> "throw", error |-> error]
                  /\ rbPc' = "done"
                  /\ rbDelays' = rbDelays
             ELSE /\ rbDelays' = Append(rbDelays, RetryDelay(rbOptions, rbAttempt))
                  /\ rbPc' = "delay"
                  /\ rbOutcome' = rbOutcome
  /\ UNCHANGED <<rbOptions, rbAttempt>>

\* the backoff timer fires: attempt++
RetryDelayElapsed ==
  /\ UNCHANGED outsideRetry
  /\ rbPc = "delay"
  /\ rbAttempt' = rbAttempt + 1
  /\ rbPc' = "loop"
  /\ UNCHANGED <<rbOptions, rbLastError, rbLog, rbDelays, rbOutcome>>

RetryInit ==
  /\ OutsideRetryIdle
  /\ rbOptions \in RetryOptions
  /\ rbPc = "loop"
  /\ rbAttempt = 0
  /\ rbLastError = None
  /\ rbLog = <<>>
  /\ rbDelays = <<>>
  /\ rbOutcome = None

RetryNext ==
  \/ RetryCall
  \/ RetrySuccess
  \/ RetryFailure
  \/ RetryDelayElapsed

RetrySpec == RetryInit /\ [][RetryNext]_vars

(* -------------------------- retry properties --------------------------- *)
\* call k of fn failed with a validation, authentication or configuration
\* error
NonRetryableFailure(k) ==
  /\ rbLog[k].kind = "error"
  /\ rbLog[k].appError
  /\ rbLog[k].errorCode \in nonRetryableErrors

\* C24: retryWithBackoff never calls the operation again after a validation,
\* authentication or configuration error, which it throws at once; every
\* other failure, rate-limit errors included, is retried after a backoff
\* delay until the operation succeeds or maxRetries retries have been used,
\* and then the last error is thrown.
C24_RetryPolicy ==
  /\ \A k \in 1..Len(rbLog) :
       NonRetryableFailure(k) =>
         /\ k = Len(rbLog)
         /\ Len(rbDelays) = k - 1
         /\ rbOutcome = [kind |-> "throw", error |-> rbLog[k]]
  /\ \A k \in 1..Len(rbLog) :
       (rbLog[k].kind = "error" /\ ~NonRetryableFailure(k)) =>
         IF k = rbOptions.maxRetries + 1
         THEN /\ rbOutcome = [kind |-> "throw", error |-> rbLog[k]]
              /\ Len(rbDelays) = k - 1
         ELSE /\ rbOutcome = None \/ Len(rbLog) > k
              /\ Len(rbDelays) >= k
              /\ rbDelays[k] = Min(rbOptions.baseDelay * Pow2(k - 1), 10000)
  /\ Len(rbLog) <= rbOptions.maxRetries + 1
  /\ rbPc = "done" =>
       \/ rbOutcome.kind = "return" /\ rbLog[Len(rbLog)].kind = "value"
       \/ rbOutcome.kind = "throw" /\ rbOutcome.error = rbLog[Len(rbLog)]

\* a rate-limit error was retried and the retry failed with a validation
\* error, which ended the call with retries to spare
C24_Witness ==
  /\ rbPc = "done"
  /\ rbOptions.maxRetries >= 2
  /\ Len(rbLog) = 2
  /\ rbLog[1].kind = "error" /\ rbLog[1].errorCode = "RATE_LIMIT_ERROR"
  /\ rbLog[2].kind = "error" /\ rbLog[2].errorCode = "VALIDATION_ERROR"
  /\ rbOutcome.kind = "throw"

(* -------------------------- POST /api/embeddings ----------------------- *)
\* parsed bodies: batchSize 0 stands for an absent one, a negative one fails
\* the schema; dataFile tells whether the body names a file
EmbeddingsRequests ==
  [forceRecreate : BOOLEAN, dataFile : BOOLEAN, batchSize : {-1, 0, 1}]

\* what the file system holds at the data file's path (the named file, or
\* the latest file of data/scraped): nothing, text that is no JSON, a JSON
\* object without faqs, or a list of count FAQ records
DataFiles ==
  {[kind |-> "absent"], [kind |-> "invalid"], [kind |-> "object"]}
  \cup {[kind |-> "list", count |-> n] : n \in 0..MaxFaqs}

\* the index before the request, with the number of records it stores
Indexes ==
  {[exists |-> FALSE, stored |-> 0]}
  \cup {[exists |-> TRUE, stored |-> n] : n \in 0..1}

\* a response that ends the handler before the upload
EmbeddingsError(status, cause) ==
  [kind |-> "http", status |-> status, success |-> FALSE, cause |-> cause]

\* nothing but the embeddings handler is running
OutsideEmbeddingsIdle ==
  /\ ScraperIdle
  /\ SearchIdle
  /\ ChatIdle
  /\ ValidatorIdle
  /\ ExtractorIdle
  /\ ConverterIdle
  /\ CountIdle
  /\ RetryIdle

\* ProcessDataSchema.parse(body), then pineconeClient.indexExists is called
EmbeddingsReceive ==
  /\ UNCHANGED outsideEmbeddings
  /\ ePc = "received"
  /\ IF eReq.batchSize < 0
     THEN /\ ingestReply' = EmbeddingsError(400, "invalid_request")
          /\ ePc' = "replied"
          /\ eOps' = eOps
     ELSE /\ eOps' = Append(eOps, "listIndexes")
          /\ ePc' = "indexExists"
          /\ ingestReply' = ingestReply
  /\ UNCHANGED <<eReq, eFile, eIndex0, eIndex>>
  /\ UNCHANGED <<records, batchSize, pc, i, totalProcessed, allErrors,
                 lastUpsert, batchResult, calls, outcomes, inFlight, events,
                 caller>>

\* indexExists settles (false when listIndexes throws); the handler asks for
\* the deletion or the creation of the index, or goes on to the data file
EmbeddingsIndexChecked ==
  /\ UNCHANGED outsideEmbeddings
  /\ ePc = "indexExists"
  /\ \E listThrows \in BOOLEAN :
       LET indexExists == ~listThrows /\ eIndex.exists
       IN IF ~indexExists \/ eReq.forceRecreate
          THEN IF indexExists /\ eReq.forceRecreate
               THEN /\ eOps' = Append(eOps, "deleteIndex")
                    /\ ePc' = "deleteIndex"
               ELSE /\ eOps' = Append(eOps, "createIndexForModel")
                    /\ ePc' = "createIndex"
          ELSE /\ eOps' = eOps
               /\ ePc' = "load"
  /\ UNCHANGED <<eReq, eFile, eIndex0, eIndex>>
  /\ UNCHANGED storageVars

\* deleteIndex settles: the index and its records are gone and, five seconds
\* later, the creation is asked for; or the outer catch answers 500
EmbeddingsDeleteSettles ==
  /\ UNCHANGED outsideEmbeddings
  /\ ePc = "deleteIndex"
  /\ \E throws \in BOOLEAN :
       IF throws
       THEN /\ ingestReply' = EmbeddingsError(500, "internal")
            /\ ePc' = "replied"
            /\ UNCHANGED <<eIndex, eOps>>
       ELSE /\ eIndex' = [exists |-> FALSE, stored |-> 0]
            /\ eOps' = Append(eOps, "createIndexForModel")
            /\ ePc' = "createIndex"
            /\ ingestReply' = ingestReply
  /\ UNCHANGED <<eReq, eFile, eIndex0>>
  /\ UNCHANGED <<records, batchSize, pc, i, totalProcessed, allErrors,
                 lastUpsert, batchResult, calls, outcomes, inFlight, events,
                 caller>>

\* createIndexForModel settles: a new, empty index exists; or it throws (it
\* does for an index that is already there) and the outer catch answers 500
EmbeddingsCreateSettles ==
  /\ UNCHANGED outsideEmbeddings
  /\ ePc = "createIndex"
  /\ \E throws \in (IF eIndex.exists THEN {TRUE} ELSE BOOLEAN) :
       IF throws
       THEN /\ ingestReply' = EmbeddingsError(500, "internal")
            /\ ePc' = "replied"
            /\ eIndex' = eIndex
       ELSE /\ eIndex' = [exists |-> TRUE, stored |-> 0]
            /\ ePc' = "load"
            /\ ingestReply' = ingestReply
  /\ UNCHANGED <<eReq, eFile, eIndex0, eOps>>
  /\ UNCHANGED <<records, batchSize, pc, i, totalProcessed, allErrors,
                 lastUpsert, batchResult, calls, outcomes, inFlight, events,
                 caller>>

\* the data file is looked up, read and parsed; the handler answers 404, 400
\* or 500, or converts the FAQs and calls batchUpsertRecords with
\* batchSize || 100
EmbeddingsLoad ==
  /\ UNCHANGED outsideEmbeddings
  /\ ePc = "load"
  /\ IF eFile.kind = "list" /\ eFile.count > 0
     THEN /\ records' = [k \in 1..eFile.count |-> k]
          /\ batchSize' = OrDefault(eReq.batchSize, 100)
          /\ pc' = "loop"
          /\ caller' = "embeddings_route"
          /\ ePc' = "upload"
          /\ ingestReply' = ingestReply
     ELSE /\ ingestReply' =
               IF eFile.kind = "absent"
               THEN IF eReq.dataFile
                    THEN EmbeddingsError(404, "file_not_found")
                    ELSE EmbeddingsError(404, "no_data_file")
               ELSE IF eFile.kind = "invalid"
               THEN EmbeddingsError(500, "internal")
               ELSE EmbeddingsError(400, "no_faq_data")
          /\ ePc' = "replied"
          /\ UNCHANGED <<records, batchSize, pc, caller>>
  /\ UNCHANGED <<eReq, eFile, eIndex0, eIndex, eOps>>
  /\ UNCHANGED <<i, totalProcessed, allErrors, lastUpsert, batchResult, calls,
                 outcomes, inFlight, events>>

EmbeddingsInit ==
  /\ OutsideEmbeddingsIdle
  /\ StorageIdle
  /\ eReq \in EmbeddingsRequests
  /\ eFile \in DataFiles
  /\ eIndex0 \in Indexes
  /\ eIndex = eIndex0
  /\ ePc = "received"
  /\ eOps = <<>>

EmbeddingsNext ==
  \/ EmbeddingsReceive
  \/ EmbeddingsIndexChecked
  \/ EmbeddingsDeleteSettles
  \/ EmbeddingsCreateSettles
  \/ EmbeddingsLoad
  \/ BatchSubmit
  \/ StoreAnswer
  \/ BatchDelay
  \/ BatchReturn
  \/ IngestReport

EmbeddingsSpec == EmbeddingsInit /\ [][EmbeddingsNext]_vars

(* ----------------------- embeddings properties ------------------------- *)
\* the handler answered with the error for a missing data file or for a
\* file without FAQ records
NoDataError ==
  /\ ingestReply # None
  /\ ingestReply.kind = "http"
  /\ "cause" \in DOMAIN ingestReply
  /\ ingestReply.cause \in {"no_data_file", "file_not_found", "no_faq_data"}

\* C30: when POST /api/embeddings answers with an error because the data
\* file is missing or holds no FAQ records, the index and its stored records
\* are unchanged: no deleteIndex, createIndex or upsert was issued, also
\* when forceRecreate is set.
C30_NoDataNoChange ==
  (ePc = "replied" /\ NoDataError) =>
    /\ eIndex = eIndex0
    /\ \A k \in 1..Len(eOps) : eOps[k] \notin {"deleteIndex", "createIndexForModel"}
    /\ calls = <<>>

(* ------------------------ storage properties --------------------------- *)
FailedCalls == {c \in 1..Len(outcomes) : ~outcomes[c]}

AcceptedCalls == {c \in 1..Len(outcomes) : outcomes[c]}

\* C1: after batchUpsertRecords returns, processedCount + failedCount is the
\* number of input records and neither count is negative, for every record
\* list, batchSize >= 1 and pattern of per-batch store failures.
C1_BatchAccounting ==
  pc = "done" =>
    /\ batchResult.processedCount + batchResult.failedCount = Len(records)
    /\ batchResult.processedCount >= 0
    /\ batchResult.failedCount >= 0

C1_Witness ==
  /\ pc = "done"
  /\ Len(calls) >= 3
  /\ FailedCalls # {}
  /\ AcceptedCalls # {}

\* C2: when exactly one batch k fails at the store and all others succeed,
\* processedCount = len(records) - len(batch_k), failedCount = len(batch_k)
\* and errors holds exactly the one entry produced for batch k.
C2_SingleFailure ==
  (pc = "done" /\ Cardinality(FailedCalls) = 1) =>
    LET k == CHOOSE c \in FailedCalls : TRUE IN
    /\ batchResult.processedCount = Len(records) - Len(calls[k])
    /\ batchResult.failedCount = Len(calls[k])
    /\ batchResult.errors =
         << [code |-> "UPSERT_ERROR", details |-> StoreError(k)] >>

C2_Witness ==
  /\ pc = "done"
  /\ Len(calls) = 3
  /\ FailedCalls = {2}
  /\ Len(calls[3]) < Len(calls[2])

\* C3: the run issues exactly ceil(n/b) store upsert calls in input order,
\* each of size b except a possibly smaller last one, every record submitted
\* exactly once, whichever batches fail.
C3_CallSizes ==
  pc = "done" =>
    /\ Len(calls) = CeilDiv(Len(records), batchSize)
    /\ \A c \in 1..Len(calls) :
         IF c < Len(calls)
         THEN Len(calls[c]) = batchSize
         ELSE Len(calls[c]) >= 1 /\ Len(calls[c]) <= batchSize
    /\ Flatten(calls) = records

C3_Witness ==
  /\ pc = "done"
  /\ Len(records) = 5
  /\ batchSize = 2
  /\ [c \in 1..Len(calls) |-> Len(calls[c])] = <<2, 2, 1>>
  /\ outcomes = <<FALSE, TRUE, TRUE>>

\* C4: at most one store upsert call of the run is in flight; a call for the
\* next chunk starts only after the previous call was answered and the delay
\* step was taken; no delay step follows the last chunk.
C4_Sequential ==
  /\ Cardinality(inFlight) <= 1
  /\ \A p \in 1..Len(events) :
       /\ (events[p] = "call" /\ p > 1) =>
            /\ p > 2
            /\ events[p - 1] = "delay"
            /\ events[p - 2] \in {"ok", "fail"}
       /\ (events[p] = "delay") =>
            /\ p > 1
            /\ events[p - 1] \in {"ok", "fail"}
       /\ (events[p] \in {"ok", "fail"}) =>
            /\ p > 1
            /\ events[p - 1] = "call"
  /\ (pc = "done" /\ events # <<>>) => events[Len(events)] \in {"ok", "fail"}

C4_Witness ==
  /\ pc = "done"
  /\ Len(calls) = 3
  /\ Len(SelectSeq(events, LAMBDA e : e = "delay")) = 2

\* C5: the returned success flag is true iff failedCount = 0, iff the errors
\* list is empty; the empty record list included.
C5_SuccessFlag ==
  pc = "done" =>
    /\ batchResult.success <=> (batchResult.failedCount = 0)
    /\ (batchResult.failedCount = 0) <=> (batchResult.errors = <<>>)

C5_Witness ==
  /\ pc = "done"
  /\ ~batchResult.success
  /\ batchResult.processedCount > 0
  /\ batchResult.failedCount > 0

\* C6: upsertRecords never re-raises a store exception: a throwing store
\* gives success = false, processedCount = 0, failedCount = batch length and
\* one error entry; an accepting store gives success = true, processedCount
\* = batch length, failedCount = 0 and no error entries.
C6_UpsertOutcome ==
  lastUpsert # None =>
    /\ lastUpsert.result.kind = "return"
    /\ LET v == lastUpsert.result.value
           len == Len(lastUpsert.batch) IN
       IF lastUpsert.storeThrows
       THEN /\ v.success = FALSE
            /\ v.processedCount = 0
            /\ v.failedCount = len
            /\ Len(v.errors) = 1
            /\ v.errors[1].code = "UPSERT_ERROR"
            /\ v.errors[1].details = StoreError(lastUpsert.call)
       ELSE /\ v.success = TRUE
            /\ v.processedCount = len
            /\ v.failedCount = 0
            /\ v.errors = <<>>

C6_Witness ==
  /\ lastUpsert # None
  /\ lastUpsert.storeThrows
  /\ Len(lastUpsert.batch) >= 2
  /\ pc # "done"

FailedAttempts == {k \in 1..Len(attemptLog) : ~attemptLog[k].ok}

\* C8: for maxRetries = N >= 1 the scrape cycle runs at most N times, the
\* data of the first successful attempt is returned and no attempt follows
\* it, and a throw happens only after N failed attempts and carries the error
\* of the N-th attempt.
C8_RetryBudget ==
  maxRetries >= 1 =>
    /\ Len(attemptLog) <= maxRetries
    /\ \A k \in 1..Len(attemptLog) :
         attemptLog[k].ok => (k = Len(attemptLog) /\ spc = "returned")
    /\ spc = "returned" =>
         /\ attemptLog # <<>>
         /\ attemptLog[Len(attemptLog)].ok
         /\ scrapeOutcome = [kind |-> "return",
                             data |-> ScrapedData(Len(attemptLog))]
    /\ spc = "thrown" =>
         /\ Len(attemptLog) = maxRetries
         /\ FailedAttempts = 1..maxRetries
         /\ scrapeOutcome = [kind |-> "throw",
                             error |-> attemptLog[maxRetries].error]
         /\ scrapeOutcome.error.attempt = maxRetries

C8_Witness ==
  /\ maxRetries = 3
  /\ spc = "thrown"
  /\ Len(attemptLog) = 3
  /\ attemptLog[1].error.cause # attemptLog[3].error.cause

\* C9: the wait between failed attempt k and attempt k+1 is 2^k seconds, each
\* attempt issues its own content fetch and returns only what that fetch
\* gave, and no wait follows the final failed attempt.
C9_Backoff ==
  maxRetries >= 1 =>
    /\ \A k \in 1..Len(waits) :
         /\ waits[k] % 1000 = 0
         /\ waits[k] \div 1000 = Pow2(k)
         /\ k <= Len(attemptLog) /\ ~attemptLog[k].ok
    /\ Len(waits) = Cardinality(FailedAttempts)
                      - (IF spc = "thrown" THEN 1 ELSE 0)
    /\ fetchCalls = Len(attemptLog)
                      + (IF spc \in {"fetch", "saveRaw", "saveProcessed"}
                         THEN 1 ELSE 0)
    /\ spc = "returned" => scrapeOutcome.data.fetch = fetchCalls

C9_Witness ==
  /\ maxRetries = 3
  /\ waits = <<2000, 4000>>
  /\ spc = "thrown"
  /\ fetchCalls = 3

\* C10: an attempt whose fetch, extraction and validation succeeded is not
\* turned into a failed attempt by a snapshot write that fails.
C10_PersistenceDoesNotMask ==
  \A k \in 1..Len(attemptLog) : attemptLog[k].extracted => attemptLog[k].ok

(* ------------------------ ingestion callers ---------------------------- *)
\* an error outcome: a non-success HTTP response or a non-zero exit
IsErrorOutcome(reply) ==
  \/ reply.kind = "http" /\ reply.status >= 400
  \/ reply.kind = "exit" /\ reply.code # 0

\* C11: an ingestion run that failed (scraping failed after all retries, or
\* one or more upsert batches failed) gives its caller an error outcome that
\* carries the last underlying cause; none is reported as a success.
C11_FailureIsReported ==
  /\ (scrapeReply # None /\ spc = "replied" /\ scrapeOutcome.kind = "throw")
       => /\ IsErrorOutcome(scrapeReply)
          /\ scrapeReply.message = ErrorMessage(lastError)
  /\ (pc = "reported" /\ FailedCalls # {})
       => /\ IsErrorOutcome(ingestReply)
          /\ ingestReply.cause = allErrors[Len(allErrors)].details

\* C12: a snapshot file, once written, keeps its content through every later
\* step of this or a later scrape request.
C12_SnapshotsImmutable ==
  [][\A q \in DOMAIN files : q \in DOMAIN files' /\ files'[q] = files[q]]_vars

(* ------------------------ upload properties ---------------------------- *)
\* C27: batchUpsertRecords terminates and returns a BatchResult for every
\* record list and every integer batchSize its callers can supply, negative
\* ones included.
C27_UploadTerminates == <>(batchResult # None)

(* --------------------- scrape request properties ----------------------- *)
\* C26: for every maxRetries the scrape endpoint passes on, zero and negative
\* numbers included, scrapeWithRetry makes at least one scrape attempt, and
\* what it throws on failure is an Error that describes the failure of the
\* last attempt.
C26_AtLeastOneAttempt ==
  scrapeOutcome # None =>
    /\ attemptLog # <<>>
    /\ fetchCalls >= 1
    /\ scrapeOutcome.kind = "throw" =>
         /\ scrapeOutcome.error # None
         /\ scrapeOutcome.error.kind = "Error"
         /\ scrapeOutcome.error = attemptLog[Len(attemptLog)].error

\* the processed snapshot files written during the current request
ProcessedWrites ==
  {written[k].path : k \in {j \in 1..Len(written) :
                              written[j].bucket = "processed"}}

\* C29: a successful scrape request with saveToFile = false writes no
\* processed snapshot file, one with saveToFile = true writes exactly one.
C29_ProcessedSnapshotCount ==
  (entry = "route" /\ spc = "replied" /\ scrapeReply.status = 200)
    => Cardinality(ProcessedWrites) = (IF saveToFile THEN 1 ELSE 0)

(* ------------------------- search properties --------------------------- *)
LastAnswer == storeAnswers[Len(storeAnswers)]

LastOp == storeOps[Len(storeOps)]

\* method fn has issued its store operations
Issued(fn) == sPc \in {"query", "replied"} /\ sCall # None /\ sCall.fn = fn

\* C14: when the store query throws, semanticSearch re-throws the error to
\* its caller and substitutes no empty result, and POST /api/search answers
\* with an error response that holds no result list.
C14_StoreErrorSurfaces ==
  \A k \in 1..Len(storeAnswers) :
    storeAnswers[k].kind = "throw" =>
      /\ k = Len(storeAnswers)
      /\ sPc = "replied"
      /\ IF sEntry = "api"
         THEN searchReply = [kind |-> "throw", error |-> storeAnswers[k].error]
         ELSE /\ searchReply.kind = "http"
              /\ searchReply.status = 500
              /\ searchReply.message = storeAnswers[k].error
              /\ "results" \notin DOMAIN searchReply
              /\ "success" \notin DOMAIN searchReply

C14_Witness ==
  /\ sEntry = "route"
  /\ sPhase = "rerank"
  /\ Len(storeAnswers) = 2
  /\ LastAnswer.kind = "throw"
  /\ searchReply.status = 500

\* C15 as stated: semanticSearch called with a config that names a category
\* returns only hits of that category.
C15_CategoryConfigHonoured ==
  (/\ sEntry = "api"
   /\ sPc = "replied"
   /\ sCall.fn = "semanticSearch"
   /\ sCall.config.category # ""
   /\ searchReply.kind = "return")
    => \A k \in 1..Len(searchReply.results) :
         searchReply.results[k].metadata.category = sCall.config.category

\* C15: semanticSearch sends the store config.filter and nothing else, so it
\* returns only hits that satisfy every constraint of config.filter (a
\* category constraint included); a category property of the config has no
\* effect on the request.
C15_FilterHonoured ==
  (sEntry = "api" /\ Issued("semanticSearch"))
    => /\ LastOp.filter = sCall.config.filter
       /\ (sPc = "replied" /\ searchReply.kind = "return") =>
            \A k \in 1..Len(searchReply.results) :
              \A e \in sCall.config.filter :
                searchReply.results[k].metadata[e.key] \in e.vals

C15_Witness ==
  /\ sEntry = "api"
  /\ sPc = "replied"
  /\ sCall.fn = "semanticSearch"
  /\ sCall.config.category = "Payments"
  /\ sCall.config.filter = {Eq("category", "Rewards")}
  /\ searchReply.kind = "return"
  /\ Len(searchReply.results) = 1
  /\ searchReply.results[1].metadata.category = "Rewards"

\* C16: categorySearch always sends the store a filter whose category
\* constraint is equality with the requested category, multiCategorySearch
\* one whose category constraint is membership in the requested set,
\* whatever filter the caller adds.
C16_CategoryConstraintSent ==
  /\ Issued("categorySearch")
       => Eq("category", sCall.config.category) \in LastOp.filter
  /\ Issued("multiCategorySearch")
       => In("category", sCall.categories) \in LastOp.filter

\* C17: when reranking is applied for a requested topK, the store is asked
\* for min(topK * 5, 100) candidates and the reranker for exactly topK
\* results, and the response holds no more than topK results.
C17_RerankRequest ==
  Issued("searchWithReranking")
    => LET topK == OrDefault(sCall.config.topK, DefaultTopK)
       IN /\ LastOp.topK = Min(topK * 5, 100)
          /\ LastOp.topN = topK
          /\ (sPc = "replied" /\ "results" \in DOMAIN searchReply)
               => Len(searchReply.results) <= topK

\* C18: findSimilar never asks the store to fetch by id: for every
\* documentId, one absent from the index included, it issues exactly one
\* text query and, when that query succeeds, returns its result set.
C18_FindSimilarOneQuery ==
  Issued("findSimilar")
    => /\ Len(storeOps) = 1
       /\ storeOps[1].op = "searchRecords"
       /\ storeOps[1].text = SimilarQuery
       /\ (sPc = "replied" /\ LastAnswer.kind = "hits")
            => /\ searchReply.kind \in {"return", "http"}
               /\ "results" \in DOMAIN searchReply
               /\ searchReply.results =
                    [k \in 1..Len(LastAnswer.hits) |->
                       ToSearchResult(LastAnswer.hits[k])]

C18_Witness ==
  /\ sEntry = "api"
  /\ sPc = "replied"
  /\ sCall.fn = "findSimilar"
  /\ sCall.documentId = "missing"
  /\ \A d \in indexDocs : d.id # sCall.documentId
  /\ searchReply.kind = "return"
  /\ Len(searchReply.results) = 2

\* C25: findSimilar(documentId, topK) returns at most topK results and never
\* the document whose id is documentId.
C25_SimilarExcludesSelf ==
  (Issued("findSimilar") /\ sPc = "replied" /\ "results" \in DOMAIN searchReply)
    => /\ Len(searchReply.results)
            <= OrDefault(sCall.config.topK, DefaultTopK)
       /\ \A k \in 1..Len(searchReply.results) :
            searchReply.results[k].id # sCall.documentId

\* the categories a request body asks for, as the switch on searchType
\* reads them
RequestedCategories(req) ==
  IF req.searchType = "category" THEN {req.category}
  ELSE IF req.categories # {} THEN req.categories
  ELSE {req.category}

\* the request names a category that its searchType makes use of, and its
\* own filter says nothing about the category
NamesCategory(req) ==
  /\ req.searchType \in {"", "semantic", "category"}
  /\ req.category # "" \/ (req.searchType # "category" /\ req.categories # {})
  /\ \A e \in req.filter : e.key # "category"

\* C28: a POST /api/search request that names a category or a categories
\* list returns only results of that category, with useReranking set or not.
C28_RerankingKeepsCategory ==
  (/\ sEntry = "route"
   /\ sPc = "replied"
   /\ searchReply.status = 200
   /\ NamesCategory(sReq))
    => \A k \in 1..Len(searchReply.results) :
         searchReply.results[k].metadata.category \in RequestedCategories(sReq)

(* -------------------------- chat properties ---------------------------- *)
\* C13: whatever the context search gives (hits, no hits, a thrown store
\* error), the handler calls the LLM exactly once and returns its answer;
\* contextUsed is false when the search failed or found nothing, and true
\* only when a non-empty context block went to the LLM.
C13_DegradesToPlainAnswer ==
  /\ Len(llmCalls) <= 1
  /\ (cPc \in {"llm", "replied"} /\ cSearch # None) => Len(llmCalls) = 1
  /\ (cPc = "replied" /\ cSearch # None)
       => /\ llmAnswers[1].kind = "content"
               => /\ chatReply.status = 200
                  /\ chatReply.message = llmAnswers[1].content
          /\ chatReply.status = 200
               => /\ (cSearch.kind = "throw" \/ cSearch.results = <<>>)
                       => ~chatReply.metadata.contextUsed
                  /\ chatReply.metadata.contextUsed
                       => /\ llmCalls[1].system.withContext
                          /\ llmCalls[1].system.context.length > 0
                          /\ llmCalls[1].system.context.parts # <<>>

C13_Witness ==
  /\ cPc = "replied"
  /\ cSearch # None
  /\ cSearch.kind = "throw"
  /\ Len(llmCalls) = 1
  /\ chatReply.status = 200
  /\ chatReply.message = "answer"
  /\ ~chatReply.metadata.contextUsed

(* ------------------------ validator properties ------------------------- *)
\* C19: for every candidate list, null, non-object and wrongly typed entries
\* included, validateAndCleanFAQs does not throw, returns at most as many
\* records as it was given, in the relative order of the input, and every
\* returned record has a category of the fixed set of eight, a question that
\* is non-empty after trimming and a chunk_text that is non-empty after
\* trimming.
C19_ValidatorOutput ==
  vPc = "done" =>
    /\ cleaned.kind = "return"
    /\ Len(cleaned.value) <= Len(faqs)
    /\ \A k \in 1..Len(cleaned.value) :
         LET out == cleaned.value[k]
             src == faqs[cleaned.from[k]]
         IN /\ cleaned.from[k] \in 1..Len(faqs)
            /\ k > 1 => cleaned.from[k - 1] < cleaned.from[k]
            /\ src.t = "object"
            /\ out.category = src.category
            /\ out.question = src.question
            /\ out.chunk_text.s = Trim(src.chunk_text.s)
            /\ out.category.t = "string"
            /\ out.category.s \in validCategories
            /\ out.question.t = "string"
            /\ Len(Trim(out.question.s)) > 0
            /\ out.chunk_text.t = "string"
            /\ Len(Trim(out.chunk_text.s)) > 0

C19_Witness ==
  /\ vPc = "done"
  /\ Len(faqs) = 2
  /\ faqs[1] = Null
  /\ faqs[2].t = "object"
  /\ cleaned.kind = "return"
  /\ Len(cleaned.value) = 1
  /\ cleaned.value[1].chunk_text.s # faqs[2].chunk_text.s

\* positions of the candidates that carry a string _id
WithStringId(list) ==
  {k \in 1..Len(list) : list[k].t = "object" /\ list[k]._id.t = "string"}

\* C20: the ids of the validator's output are pairwise distinct whenever the
\* string ids present in the input are pairwise distinct, also when some
\* records lack an id and get one regenerated from their position.
C20_OutputIdsDistinct ==
  (/\ vPc = "done"
   /\ cleaned.kind = "return"
   /\ \A j, k \in WithStringId(faqs) :
        j # k => faqs[j]._id # faqs[k]._id)
    => \A j, k \in 1..Len(cleaned.value) :
         j # k => cleaned.value[j]._id # cleaned.value[k]._id

====
